---- MODULE Spec2Model ----
(***************************************************************************)
(* Model of the path_event_to_task pipeline:                               *)
(*   filesystem change -> PathObserver (watcher thread)                    *)
(*     -> AsyncEventHandler (bridge: filter + call_soon_threadsafe)        *)
(*     -> event_queue -> EventProcessor.process_events (validate, delay)   *)
(*     -> task_queue -> PathTaskManager._consume_task_queue (callback).    *)
(*                                                                         *)
(* Two execution domains are modelled: the watcher thread (WatcherEmit,    *)
(* RunObserver) and the single-threaded asyncio loop.  A coroutine keeps   *)
(* the loop from one await that suspends to the next one; `current` names  *)
(* the coroutine that holds the loop.  The filesystem is the environment:  *)
(* Unlink may strike between any two stat calls of a validator.            *)
(***************************************************************************)
EXTENDS Integers, Sequences, FiniteSets, TLC

\* ------------------------------------------------------------- bounds
\* Number of filesystem notifications the watcher thread dispatches.
MaxEvents == 2
\* Number of calls of PathObserver.start_in_thread() (run() included).
MaxStarts == 2

\* ------------------------------------------------------------- universe
None == "None"

\* Monitored paths (event.src_path); all of them are on disk initially.
Paths == {"/in/LastShot.txt", "/in/other.json"}
\* The same with a sub-directory of the monitored directory.
AllPaths == Paths \cup {"/in/sub"}

\* pathlib.Path(p).name
Basename(p) ==
    CASE p = "/in/LastShot.txt" -> "LastShot.txt"
      [] p = "/in/other.json"   -> "other.json"
      [] OTHER                  -> "sub"

\* os.stat() of a path that is on disk: type, st_size, birth/ctime, st_mtime.
Stat(p) ==
    CASE p = "/in/LastShot.txt" ->
             [is_dir |-> FALSE, st_size |-> 2, st_ctime |-> 1, st_mtime |-> 2]
      [] p = "/in/other.json" ->
             [is_dir |-> FALSE, st_size |-> 1, st_ctime |-> 1, st_mtime |-> 1]
      [] OTHER ->
             [is_dir |-> TRUE, st_size |-> 0, st_ctime |-> 0, st_mtime |-> 0]

EventTypes == {"created", "modified", "deleted"}

VARIABLES
    \* ---- configuration, fixed by the constructors
    handler,           \* class of the event handler given to the observer
    handler_loop,      \* AsyncEventHandler.loop: "running" | "private"
    regexes,           \* allow-list given to the handler: {} (None) or {list}
    ignore_regexes,    \* deny-list given to the handler: {} (None) or {list}
    ignore_directories,
    validation_enabled, \* BaseEventHandler.validation_enabled
    validation_timeout, \* BaseEventHandler.validation_timeout
    process_delay,     \* EventProcessor.process_delay
    validator,         \* EventProcessor.validator (record; kind None: no validator)
    buffer,            \* EventProcessor.buffer: "task_queue" | None
    maxsize,           \* maxsize of the buffer's asyncio.Queue; 0: unbounded
    consume_callback,  \* "sync" | "async" | None
    \* ---- environment
    fs,                \* [AllPaths -> {"present", "removed"}]
    shotlog,           \* ShotLog.json in the sub-directory:
                       \* "absent" | "empty" | "nonempty"
    \* ---- PathObserver
    thread,            \* PathObserver._thread: None | "alive" | "finished"
    observer,          \* PollingObserver: "initial" | "started" | "stopped"
    obs_log,           \* calls and log records of the PathObserver
    emitted,           \* notifications dispatched by the watcher thread
    \* ---- synchronous handler, on the watcher thread
    sync_pc,           \* validate(): "idle" | "poll" | "read"
    sync_event,        \* the event being validated
    expired,           \* time.time() - start_time >= timeout
    \* ---- asyncio loop and queues
    ready,             \* callbacks handed to handler.loop.call_soon_threadsafe
    event_queue,       \* asyncio.Queue of events
    task_queue,        \* asyncio.Queue of path strings
    current,           \* coroutine holding the loop: "idle" | "processor" | "consumer"
    \* ---- EventProcessor.process_events
    proc_pc, event, info,
    vidx,              \* CompositeValidator.validate: index of `validator`
    combined_info,     \* CompositeValidator.validate: combined_info
    \* ---- PathTaskManager
    mgr,               \* "created" | "running" | "stopped"
    tasks,             \* PathTaskManager._tasks
    run_pc,            \* run(): "created" | "gather" | "raised" | "cancelled"
    cons_pc, cons_task,
    \* ---- history
    hist               \* counters and logs of what has been done

vars == <<handler, handler_loop, regexes, ignore_regexes, ignore_directories,
          validation_enabled, validation_timeout, process_delay, validator,
          buffer, maxsize, consume_callback, fs, shotlog, thread, observer,
          obs_log, emitted, sync_pc, sync_event, expired, ready, event_queue,
          task_queue, current, proc_pc, event, info, vidx, combined_info, mgr,
          tasks, run_pc, cons_pc, cons_task, hist>>

config == <<handler, handler_loop, regexes, ignore_regexes,
            ignore_directories, validation_enabled, validation_timeout,
            process_delay, validator, buffer, maxsize, consume_callback>>
syncVars == <<sync_pc, sync_event, expired>>
observerVars == <<thread, observer, obs_log>>
procVars == <<proc_pc, event, info, vidx, combined_info>>
consVars == <<cons_pc, cons_task>>
mgrVars == <<mgr, tasks, run_pc>>


\* ------------------------------------------------------------- event bridge
\* re.match of a bridge regex against a full path, over the paths modelled.
RegexMatch(pattern, p) ==
    CASE pattern = ".*"        -> TRUE
      [] pattern = ".*\\.txt$" -> p = "/in/LastShot.txt"
      [] pattern = ".*Shot.*"  -> p = "/in/LastShot.txt"
      [] pattern = ".*/sub$"   -> p = "/in/sub"
      [] OTHER                 -> FALSE

AsyncEventHandler == "AsyncEventHandler"
TestDataEventHandler == "TestDataEventHandler"
LastShotEventHandler == "LastShotEventHandler"

\* Mutant: AsyncEventHandler passes an empty allow-list on as it is.
HandlerRegexesAsGiven ==
    IF regexes = {} THEN <<".*">> ELSE CHOOSE l \in regexes : TRUE

\* The allow-list the handler works with.  AsyncEventHandler.__init__ passes
\* `regexes or None`, the synchronous handlers pass regexes as it is, and the
\* base class takes None as the list [".*"].
HandlerRegexes ==
    IF regexes = {} THEN <<".*">>
    ELSE IF handler = AsyncEventHandler /\ regexes = {<<>>} THEN <<".*">>
    ELSE CHOOSE l \in regexes : TRUE

\* The deny-list the handler works with: `ignore_regexes or []` in
\* AsyncEventHandler, and the base class takes None as the empty list.
HandlerIgnoreRegexes ==
    IF ignore_regexes = {} THEN <<>> ELSE CHOOSE l \in ignore_regexes : TRUE

\* Mutant: the deny-list is not consulted.
BridgeAcceptsNoDeny(e) ==
    /\ ~(ignore_directories /\ e.is_directory)
    /\ \E i \in 1..Len(HandlerRegexes) : RegexMatch(HandlerRegexes[i], e.src_path)

\* RegexMatchingEventHandler.dispatch as configured by the handler: the
\* directory flag, the deny-list, then the allow-list.
BridgeAccepts(e) ==
    /\ ~(ignore_directories /\ e.is_directory)
    /\ ~\E i \in 1..Len(HandlerIgnoreRegexes) :
           RegexMatch(HandlerIgnoreRegexes[i], e.src_path)
    /\ \E i \in 1..Len(HandlerRegexes) : RegexMatch(HandlerRegexes[i], e.src_path)

\* Mutant: every handler enqueues in on_modified too.
HandledWithModified == {"created", "modified"}

\* The kinds of notification for which the handler has a method that
\* enqueues: on_created and on_modified, or on_created alone.
Handled ==
    IF handler = TestDataEventHandler THEN {"created"}
    ELSE {"created", "modified"}

\* Mutant: every kind of notification is posted.
PostsAnyKind(e) == BridgeAccepts(e)

\* on_created / on_modified post the event; any other kind is only logged.
Posts(e) == BridgeAccepts(e) /\ e.event_type \in Handled

\* What becomes of a notification that is not posted: dispatch returns before
\* it calls a method of the handler ("filtered"), on_modified of
\* BaseEventHandler does nothing ("ignored"), or the method inherited from
\* LoggingEventHandler logs the event ("logged").
Dropped(e) ==
    IF ~BridgeAccepts(e) THEN "filtered"
    ELSE IF handler = TestDataEventHandler /\ e.event_type = "modified"
      THEN "ignored"
    ELSE "logged"

NoEvent == [id |-> 0, src_path |-> None, is_directory |-> FALSE,
            event_type |-> None]

NewEvent(p, t) == [id |-> emitted + 1, src_path |-> p,
                   is_directory |-> Stat(p).is_dir, event_type |-> t]

\* ------------------------------------------------------------- validators
NoValidator == [kind |-> None]

\* Optional bounds are sets: {} is None, {n} is the bound n.
FileValidator(pattern, smin, smax) ==
    [kind |-> "FileValidator", name_pattern |-> pattern,
     creation_date_min |-> {}, creation_date_max |-> {},
     modified_date_min |-> {}, modified_date_max |-> {},
     filesize_min |-> smin, filesize_max |-> smax]

FolderValidator(pattern) ==
    [kind |-> "FolderValidator", name_pattern |-> pattern,
     creation_date_min |-> {}, creation_date_max |-> {},
     modified_date_min |-> {}, modified_date_max |-> {}]

CompositeValidator(validators) ==
    [kind |-> "CompositeValidator", validators |-> validators]

\* A validator written by the user of EventProcessor or CompositeValidator:
\* any object whose validate(path_input) returns (bool, dict).  This one
\* returns the same pair for every path.
CustomValidator(valid, i) ==
    [kind |-> "CustomValidator", valid |-> valid, info |-> i]

\* BaseValidator.__init__: the four optional date bounds of a validator.
WithDates(v, cmin, cmax, mmin, mmax) ==
    [v EXCEPT !.creation_date_min = cmin, !.creation_date_max = cmax,
              !.modified_date_min = mmin, !.modified_date_max = mmax]

\* Mutant: the validators are taken from an iterator, which the first call
\* of validate() that goes through it leaves empty.
ChainOnce(v) ==
    IF v.kind = "CompositeValidator"
      THEN IF hist.accepted = {} THEN v.validators ELSE <<>>
      ELSE <<v>>

\* The validators that validate() of the configured validator applies, in
\* order: self.validators of a CompositeValidator, else the validator itself.
Chain(v) == IF v.kind = "CompositeValidator" THEN v.validators ELSE <<v>>

\* re.search of a name pattern in a basename, over the names modelled.
Search(pattern, name) ==
    CASE pattern = "LastShot.txt" -> name = "LastShot.txt"
      [] pattern = "txt"          -> name = "LastShot.txt"
      [] pattern = "o"            -> name \in {"LastShot.txt", "other.json"}
      [] pattern = "sub"          -> name = "sub"
      [] OTHER                    -> FALSE

\* `bound is not None and x < bound`, `bound is not None and x > bound`; a
\* datetime bound is tested by its truth value, and every datetime is true.
Below(b, x) == \E m \in b : x < m

\* Mutant: a bound of 0 counts as no bound.
AboveIfTrue(b, x) == \E m \in b : m # 0 /\ x > m

\* Mutant: a maximum that is not supplied counts as 0.
AboveDefaultZero(b, x) == x > (IF b = {} THEN 0 ELSE CHOOSE m \in b : TRUE)

Above(b, x) == \E m \in b : x > m

Key(k, v) == k :> v
EmptyInfo == <<>>
Error(reason) == Key("error", reason)

\* info.get('error', 'unknown error')
ErrorOf(i) == IF "error" \in DOMAIN i THEN i["error"] ELSE "unknown error"

\* str() of an attribute value [type, value]: of a str the str itself, of a
\* pathlib.Path the path it holds, of None the word None.
Str(x) == IF x.type = "NoneType" THEN "None" ELSE x.value

\* Mutant: any path on disk passes for a regular file.
IsFileOrDir(p, present) == present

\* Path.is_file() and Path.is_dir(): False for a path that is not on disk.
IsFile(p, present) == present /\ ~Stat(p).is_dir
IsDir(p, present) == present /\ Stat(p).is_dir

\* Outcome of one step of validate(): go on to the next stat call, accept,
\* reject with an error, or raise.
Goto(step, i) == [to |-> step, info |-> i]
Accept(i) == [to |-> "accept", info |-> i]
Reject(reason) == [to |-> "reject", info |-> Error(reason)]
Raise == [to |-> "raise", info |-> Error("FileNotFoundError")]

\* Mutant: of each pair of bounds the maximum is tested first.
ValidateStepMaxFirst(v, p, step, present, i) ==
    CASE step = "exists" ->
             IF v.kind = "CustomValidator"
               THEN [to |-> IF v.valid THEN "accept" ELSE "reject",
                     info |-> v.info]
             ELSE IF ~present THEN Reject("does not exist")
             ELSE Goto("is_type", i)
      [] step = "is_type" ->
             IF v.kind = "FileValidator" /\ ~IsFile(p, present)
               THEN Reject("is not a file")
             ELSE IF v.kind = "FolderValidator" /\ ~IsDir(p, present)
               THEN Reject("is not a folder")
             ELSE IF v.name_pattern # None /\ ~Search(v.name_pattern, Basename(p))
               THEN Reject("does not match pattern")
             ELSE Goto("creation_time",
                       IF v.name_pattern # None THEN Key("name_valid", TRUE)
                       ELSE EmptyInfo)
      [] step = "creation_time" ->
             IF ~present THEN Raise
             ELSE IF Above(v.creation_date_max, Stat(p).st_ctime)
               THEN Reject("creation time after maximum")
             ELSE IF Below(v.creation_date_min, Stat(p).st_ctime)
               THEN Reject("creation time before minimum")
             ELSE Goto("modified_time",
                       Key("creation_time", Stat(p).st_ctime) @@ i)
      [] step = "modified_time" ->
             IF ~present THEN Raise
             ELSE IF Above(v.modified_date_max, Stat(p).st_mtime)
               THEN Reject("modified time after maximum")
             ELSE IF Below(v.modified_date_min, Stat(p).st_mtime)
               THEN Reject("modified time before minimum")
             ELSE IF v.kind = "FolderValidator"
               THEN Accept(Key("modified_time", Stat(p).st_mtime) @@ i)
             ELSE Goto("filesize", Key("modified_time", Stat(p).st_mtime) @@ i)
      [] OTHER -> \* step = "filesize"
             IF ~present THEN Raise
             ELSE IF Above(v.filesize_max, Stat(p).st_size)
               THEN Reject("filesize greater than maximum")
             ELSE IF Below(v.filesize_min, Stat(p).st_size)
               THEN Reject("filesize less than minimum")
             ELSE Accept(Key("filesize", Stat(p).st_size) @@ i)

\* The part of validate() that follows the stat call `step`, up to the next
\* stat call.  `present` is what that stat call finds on disk.
ValidateStep(v, p, step, present, i) ==
    CASE step = "exists" ->
             IF v.kind = "CustomValidator"
               THEN [to |-> IF v.valid THEN "accept" ELSE "reject",
                     info |-> v.info]
             ELSE IF ~present THEN Reject("does not exist")
             ELSE Goto("is_type", i)
      [] step = "is_type" ->
             IF v.kind = "FileValidator" /\ ~IsFile(p, present)
               THEN Reject("is not a file")
             ELSE IF v.kind = "FolderValidator" /\ ~IsDir(p, present)
               THEN Reject("is not a folder")
             ELSE IF v.name_pattern # None /\ ~Search(v.name_pattern, Basename(p))
               THEN Reject("does not match pattern")
             ELSE Goto("creation_time",
                       IF v.name_pattern # None THEN Key("name_valid", TRUE)
                       ELSE EmptyInfo)
      [] step = "creation_time" ->
             IF ~present THEN Raise
             ELSE IF Below(v.creation_date_min, Stat(p).st_ctime)
               THEN Reject("creation time before minimum")
             ELSE IF Above(v.creation_date_max, Stat(p).st_ctime)
               THEN Reject("creation time after maximum")
             ELSE Goto("modified_time",
                       Key("creation_time", Stat(p).st_ctime) @@ i)
      [] step = "modified_time" ->
             IF ~present THEN Raise
             ELSE IF Below(v.modified_date_min, Stat(p).st_mtime)
               THEN Reject("modified time before minimum")
             ELSE IF Above(v.modified_date_max, Stat(p).st_mtime)
               THEN Reject("modified time after maximum")
             ELSE IF v.kind = "FolderValidator"
               THEN Accept(Key("modified_time", Stat(p).st_mtime) @@ i)
             ELSE Goto("filesize", Key("modified_time", Stat(p).st_mtime) @@ i)
      [] OTHER -> \* step = "filesize"
             IF ~present THEN Raise
             ELSE IF Below(v.filesize_min, Stat(p).st_size)
               THEN Reject("filesize less than minimum")
             ELSE IF Above(v.filesize_max, Stat(p).st_size)
               THEN Reject("filesize greater than maximum")
             ELSE Accept(Key("filesize", Stat(p).st_size) @@ i)


\* validate() of a FileValidator or FolderValidator on a filesystem that does
\* not change meanwhile: the steps from the first stat call to the result.
RECURSIVE ValidateFrom(_, _, _, _, _)
ValidateFrom(v, p, step, present, i) ==
    LET r == ValidateStep(v, p, step, present, i)
    IN IF r.to \in {"accept", "reject", "raise"} THEN r
       ELSE ValidateFrom(v, p, r.to, present, r.info)

Validate(v, p, present) == ValidateFrom(v, p, "exists", present, EmptyInfo)

\* ------------------------------------------------------------- initial state
StatSteps == {"exists", "is_type", "creation_time", "modified_time", "filesize"}

Validators == {NoValidator, FileValidator("LastShot.txt", {}, {})}

\* The pipeline before anything is started: nothing dispatched, no thread and
\* no task, the event queue empty and the buffer holding what its owner put
\* into it before handing it to the EventProcessor.
ConstructedWith(held) ==
    /\ fs = [p \in AllPaths |-> "present"]
    /\ shotlog = "absent"
    /\ thread = None
    /\ observer = "initial"
    /\ obs_log = [start_in_thread |-> 0, warnings |-> 0, errors |-> 0,
                  schedule |-> 0, start |-> 0]
    /\ emitted = 0
    /\ sync_pc = "idle"
    /\ sync_event = NoEvent
    /\ expired = FALSE
    /\ ready = <<>>
    /\ event_queue = <<>>
    /\ task_queue = held
    /\ current = "idle"
    /\ proc_pc = "created"
    /\ event = NoEvent
    /\ info = EmptyInfo
    /\ vidx = 0
    /\ combined_info = EmptyInfo
    /\ mgr = "created"
    /\ tasks = {}
    /\ run_pc = "created"
    /\ cons_pc = "created"
    /\ cons_task = None
    /\ hist = [posted |-> <<>>, enqueued |-> <<>>, dequeued |-> 0,
               task_done |-> 0, accepted |-> {}, rejected |-> {},
               raised |-> {}, puts |-> <<>>, consumed |-> <<>>,
               cb_raised |-> {}, cb_logged |-> {}, tq_task_done |-> 0,
               errors |-> {}, returned |-> {}, invoked |-> {},
               log |-> {}, dropped |-> {},
               stop_raised |-> {}, verdicts |-> {}, io_errors |-> {},
               inc_failed |-> {}, handler_raised |-> {},
               validate_calls |-> {}, held |-> held, suspended |-> {},
               taken |-> 0]

\* The same with the queues created empty, as PathTaskManager.__init__ does.
Constructed == ConstructedWith(<<>>)

\* A PathTaskManager after __init__: it builds an AsyncEventHandler from the
\* allow-list and the directory flag of its configuration, without deny-list.
Init ==
    /\ handler = AsyncEventHandler
    /\ handler_loop \in {"running", "private"}
    /\ regexes \in {{}, {<<".*\\.txt$">>}}
    /\ ignore_regexes = {}
    /\ ignore_directories = FALSE
    /\ validation_enabled = FALSE
    /\ validation_timeout = 2
    /\ maxsize = 0
    /\ process_delay \in {0, 2}
    /\ validator \in Validators
    /\ buffer \in {"task_queue", None}
    /\ consume_callback \in {"sync", "async", None}
    /\ Constructed

\* ------------------------------------------------------------- PathObserver
\* start_in_thread(): the guard on self._thread, else spawn the starter thread.
StartInThread ==
    IF thread = "alive"
      THEN /\ obs_log' = [obs_log EXCEPT !.start_in_thread = @ + 1,
                                         !.warnings = @ + 1]
           /\ UNCHANGED thread
      ELSE /\ obs_log' = [obs_log EXCEPT !.start_in_thread = @ + 1]
           /\ thread' = "alive"

\* The starter thread: run_observer() calls self.start(), that is
\* observer.schedule() and observer.start(), then the thread ends.  A thread
\* can be started once only: starting the observer again raises, which
\* run_observer catches and logs.
RunObserver ==
    /\ thread = "alive"
    /\ thread' = "finished"
    /\ observer' = CASE observer = "initial"  -> "started"
                     [] observer = "stop_set" -> "stopped"
                     [] OTHER                 -> observer
    /\ obs_log' = [obs_log EXCEPT
                     !.schedule = @ + 1, !.start = @ + 1,
                     !.errors = IF observer \in {"initial", "stop_set"}
                                THEN @ ELSE @ + 1]
    /\ UNCHANGED <<config, shotlog, syncVars, fs, emitted, ready, event_queue,
                   task_queue, current, procVars, mgrVars, consVars, hist>>

\* Mutant: the error of self.start() ends the starter thread unlogged.
RunObserverFaultUnlogged ==
    /\ thread = "alive"
    /\ observer = "initial"
    /\ thread' = "finished"
    /\ obs_log' = [obs_log EXCEPT !.schedule = @ + 1, !.start = @ + 1]
    /\ UNCHANGED <<config, shotlog, syncVars, fs, observer, emitted, ready,
                   event_queue, task_queue, current, procVars, mgrVars,
                   consVars, hist>>

\* The starter thread when the first observer.start() fails, as it does when
\* the emitter cannot read path_to_monitor: the observer's thread is not
\* started, run_observer catches the error and logs it, and the starter
\* thread ends.
RunObserverFault ==
    /\ thread = "alive"
    /\ observer = "initial"
    /\ thread' = "finished"
    /\ obs_log' = [obs_log EXCEPT !.schedule = @ + 1, !.start = @ + 1,
                                  !.errors = @ + 1]
    /\ UNCHANGED <<config, shotlog, syncVars, fs, observer, emitted, ready,
                   event_queue, task_queue, current, procVars, mgrVars,
                   consVars, hist>>

\* start_in_thread() called by the owner of a PathObserver.
StartInThreadCall ==
    /\ obs_log.start_in_thread < MaxStarts
    /\ StartInThread
    /\ UNCHANGED <<config, shotlog, syncVars, fs, observer, emitted, ready,
                   event_queue, task_queue, current, procVars, mgrVars,
                   consVars, hist>>

\* PathObserver.stop(): observer.stop() then observer.join(); join raises on
\* an observer thread that was never started.
ObserverStopRaises == observer \in {"initial", "stop_set"}
ObserverAfterStop == IF ObserverStopRaises THEN "stop_set" ELSE "stopped"

\* stop() called by the owner of a PathObserver.
ObserverStop ==
    /\ obs_log.start_in_thread > 0
    /\ observer # "stopped"
    /\ observer' = ObserverAfterStop
    /\ hist' = [hist EXCEPT !.stop_raised =
                          IF ObserverStopRaises THEN @ \cup {mgr} ELSE @]
    /\ UNCHANGED <<config, shotlog, syncVars, fs, thread, obs_log, emitted,
                   ready, event_queue, task_queue, current, procVars, mgrVars,
                   consVars>>

\* ------------------------------------------------------------- watcher thread
\* Mutant: the callback is put first in the loop's queue.
CallSoonFirst(q, e) == <<e>> \o q

\* loop.call_soon_threadsafe(callback, event): the callback joins the end of
\* the loop's queue of ready callbacks, q.
CallSoonThreadsafe(q, e) == Append(q, e)

\* The watcher thread dispatches one notification to the handler; on_created
\* and on_modified hand put_nowait(event) to the handler's loop.
WatcherEmit(p, t) ==
    /\ handler = AsyncEventHandler
    /\ observer = "started"
    /\ emitted < MaxEvents
    /\ emitted' = emitted + 1
    /\ IF Posts(NewEvent(p, t))
         THEN /\ ready' = CallSoonThreadsafe(ready, NewEvent(p, t))
              /\ hist' = [hist EXCEPT !.posted = Append(@, NewEvent(p, t))]
         ELSE /\ hist' = [hist EXCEPT
                            !.dropped = @ \cup {Dropped(NewEvent(p, t))}]
              /\ UNCHANGED ready
    /\ UNCHANGED <<config, shotlog, syncVars, fs, observerVars, event_queue,
                   task_queue, current, procVars, mgrVars, consVars>>

\* validate(): `timeout = timeout or self.validation_timeout`, the timeout
\* given by the caller being a set ({}: none given).
EffectiveTimeout(timeout) ==
    IF timeout = {} \/ timeout = {0} THEN validation_timeout
    ELSE CHOOSE t \in timeout : TRUE

\* What folders_detected.labels(path).inc() does: it returns or it raises.
CounterOutcomes == {"ok", "raise"}

\* An exception leaves the handler: it ends the observer's thread, which
\* has called the handler, and no notification is dispatched after it.
SyncRaise(e, where, h) ==
    /\ observer' = "crashed"
    /\ sync_pc' = "idle"
    /\ sync_event' = NoEvent
    /\ expired' = FALSE
    /\ hist' = [h EXCEPT !.handler_raised = @ \cup {<<e.id, where>>}]

\* validate() returns False: process_event returns without a put.
SyncReject(e, verdict) ==
    /\ sync_pc' = "idle"
    /\ sync_event' = NoEvent
    /\ expired' = FALSE
    /\ hist' = [hist EXCEPT !.dropped = @ \cup {"invalid"},
                            !.validate_calls = @ \cup {e},
                            !.verdicts = @ \cup {<<e.id, verdict>>}]
    /\ UNCHANGED <<task_queue, observer>>

\* The end of process_event: self.buffer.put(event.src_path), then
\* self.folders_detected.labels(event.src_path).inc(), outside any try.
SyncPut(e, inc, h) ==
    /\ task_queue' = Append(task_queue, e.src_path)
    /\ LET put == [h EXCEPT !.posted = Append(@, e),
                            !.puts = Append(@, [id |-> e.id,
                                               value |-> e.src_path])]
       IN IF inc = "raise"
            THEN SyncRaise(e, "counter",
                           [put EXCEPT !.inc_failed = @ \cup {e.id}])
            ELSE /\ hist' = put
                 /\ sync_pc' = "idle"
                 /\ sync_event' = NoEvent
                 /\ expired' = FALSE
                 /\ UNCHANGED observer

\* Mutant: validate() does not test event.is_directory.
SyncDispatchAnyType(p, t, inc) ==
    /\ handler # AsyncEventHandler
    /\ observer = "started"
    /\ sync_pc = "idle"
    /\ emitted < MaxEvents
    /\ emitted' = emitted + 1
    /\ LET e == NewEvent(p, t)
       IN IF ~Posts(e)
            THEN /\ inc = "ok"
                 /\ hist' = [hist EXCEPT !.dropped = @ \cup {Dropped(e)}]
                 /\ UNCHANGED <<task_queue, observer, syncVars>>
          ELSE IF ~validation_enabled
            THEN SyncPut(e, inc, hist)
          ELSE IF fs[p] # "present"
            THEN inc = "ok" /\ SyncReject(e, "does not exist")
          ELSE /\ inc = "ok"
               /\ sync_pc' = "poll"
               /\ sync_event' = e
               /\ expired' = (EffectiveTimeout({}) = 0)
               /\ hist' = [hist EXCEPT !.validate_calls = @ \cup {e}]
               /\ UNCHANGED <<task_queue, observer>>
    /\ UNCHANGED <<config, fs, shotlog, thread, obs_log, ready, event_queue,
                   current, procVars, mgrVars, consVars>>

\* The watcher thread dispatches one notification to a synchronous handler,
\* which works on the watcher thread: on_created (and on_modified of
\* LastShotEventHandler) call process_event.  Without validation it puts the
\* path into the buffer; with validation it calls validate(event), which
\* rejects what is not a directory or is not on disk and then polls the
\* directory from start_time on.
SyncDispatch(p, t, inc) ==
    /\ handler # AsyncEventHandler
    /\ observer = "started"
    /\ sync_pc = "idle"
    /\ emitted < MaxEvents
    /\ emitted' = emitted + 1
    /\ LET e == NewEvent(p, t)
       IN IF ~Posts(e)
            THEN /\ inc = "ok"
                 /\ hist' = [hist EXCEPT !.dropped = @ \cup {Dropped(e)}]
                 /\ UNCHANGED <<task_queue, observer, syncVars>>
          ELSE IF ~validation_enabled
            THEN SyncPut(e, inc, hist)
          ELSE IF ~e.is_directory
            THEN inc = "ok" /\ SyncReject(e, "not a directory")
          ELSE IF fs[p] # "present"
            THEN inc = "ok" /\ SyncReject(e, "does not exist")
          ELSE /\ inc = "ok"
               /\ sync_pc' = "poll"
               /\ sync_event' = e
               /\ expired' = (EffectiveTimeout({}) = 0)
               /\ hist' = [hist EXCEPT !.validate_calls = @ \cup {e}]
               /\ UNCHANGED <<task_queue, observer>>
    /\ UNCHANGED <<config, fs, shotlog, thread, obs_log, ready, event_queue,
                   current, procVars, mgrVars, consVars>>

\* The test of `while time.time() - start_time < timeout` and, when it
\* holds, os.listdir(event.src_path), which is not inside the try: past the
\* timeout validate() logs and returns False; listdir raises when the
\* directory has left the disk; a listing without ShotLog.json leads back to
\* the test, a listing with it to open().
SyncPoll ==
    /\ sync_pc = "poll"
    /\ IF expired
         THEN SyncReject(sync_event, "timeout")
       ELSE IF fs[sync_event.src_path] # "present"
         THEN SyncRaise(sync_event, "listdir", hist) /\ UNCHANGED task_queue
       ELSE /\ sync_pc' = IF shotlog = "absent" THEN "poll" ELSE "read"
            /\ UNCHANGED <<sync_event, expired, task_queue, observer, hist>>
    /\ UNCHANGED <<config, fs, shotlog, thread, obs_log, emitted, ready,
                   event_queue, current, procVars, mgrVars, consVars>>

\* What open() and read() of ShotLog.json do when the file is there.
ReadOutcomes == {"ok", "OSError"}

\* open() and f.read() of ShotLog.json: an OSError is logged and the loop goes
\* on, an empty file leads back to the test of the timeout, a file with
\* content makes validate() return True, and process_event puts the path.
SyncRead(outcome, inc) ==
    /\ sync_pc = "read"
    /\ IF outcome = "OSError" \/ fs[sync_event.src_path] # "present"
         THEN /\ inc = "ok"
              /\ sync_pc' = "poll"
              /\ hist' = [hist EXCEPT !.io_errors = @ \cup {sync_event.id}]
              /\ UNCHANGED <<sync_event, expired, task_queue, observer>>
       ELSE IF shotlog = "empty"
         THEN /\ inc = "ok"
              /\ sync_pc' = "poll"
              /\ UNCHANGED <<sync_event, expired, task_queue, observer, hist>>
       ELSE SyncPut(sync_event, inc,
                    [hist EXCEPT
                       !.verdicts = @ \cup {<<sync_event.id, "accept">>}])
    /\ UNCHANGED <<config, fs, shotlog, thread, obs_log, emitted, ready,
                   event_queue, current, procVars, mgrVars, consVars>>

\* Time passes while validate() polls: the timeout is over.
Tick ==
    /\ sync_pc \in {"poll", "read"}
    /\ ~expired
    /\ expired' = TRUE
    /\ UNCHANGED <<config, fs, shotlog, observerVars, emitted, sync_pc,
                   sync_event, ready, event_queue, task_queue, current,
                   procVars, mgrVars, consVars, hist>>

\* The environment creates ShotLog.json in the sub-directory, or writes
\* content into it.  Only validate() looks at the file, so that a write made
\* earlier is the same to the program as one made when validate() begins.
WriteShotLog ==
    /\ sync_pc \in {"poll", "read"}
    /\ fs["/in/sub"] = "present"
    /\ shotlog # "nonempty"
    /\ shotlog' = IF shotlog = "absent" THEN "empty" ELSE "nonempty"
    /\ UNCHANGED <<config, fs, syncVars, observerVars, emitted, ready,
                   event_queue, task_queue, current, procVars, mgrVars,
                   consVars, hist>>

\* The environment removes a path from disk.
Unlink(p) ==
    /\ fs[p] = "present"
    /\ fs' = [fs EXCEPT ![p] = "removed"]
    /\ UNCHANGED <<config, shotlog, syncVars, observerVars, emitted, ready,
                   event_queue, task_queue, current, procVars, mgrVars,
                   consVars, hist>>

\* ------------------------------------------------------------- asyncio loop
\* The running loop runs the oldest callback handed to it:
\* event_queue.put_nowait(event).  A private loop of the handler never runs.
RunCallback ==
    /\ handler_loop = "running"
    /\ current = "idle"
    /\ ready # <<>>
    /\ ready' = Tail(ready)
    /\ event_queue' = Append(event_queue, Head(ready))
    /\ hist' = [hist EXCEPT !.enqueued = Append(@, Head(ready))]
    /\ UNCHANGED <<config, shotlog, syncVars, fs, observerVars, emitted,
                   task_queue, current, procVars, mgrVars, consVars>>


\* ------------------------------------------------------------- EventProcessor
\* Top of `while True`: await event_queue.get() suspends only on an empty
\* queue; otherwise the coroutine keeps the loop and takes the next event.
Iterate(eq, tq, h) ==
    /\ proc_pc' = "get"
    /\ event' = NoEvent
    /\ info' = EmptyInfo
    /\ vidx' = 0
    /\ combined_info' = EmptyInfo
    /\ current' = IF eq # <<>> THEN "processor" ELSE "idle"
    /\ event_queue' = eq
    /\ task_queue' = tq
    /\ hist' = h

\* Mutant: the path is put at the head of the task queue.
ForwardAtHead(e, i, eq, h) ==
    IF buffer = None
      THEN Iterate(eq, task_queue,
                   [h EXCEPT !.log = @ \cup {<<"skipping buffer", e.id>>},
                             !.task_done = @ + 1])
      ELSE LET folder_name == IF "new_folder" \in DOMAIN i
                              THEN Str(i["new_folder"]) ELSE e.src_path
           IN Iterate(eq, <<folder_name>> \o task_queue,
                      [h EXCEPT !.log = @ \cup {<<"adding folder", e.id>>},
                                !.puts = Append(@, [id |-> e.id,
                                                   value |-> folder_name]),
                                !.task_done = @ + 1])

\* Mutant: the path of the event is put whatever the validator returned.
ForwardSrcPath(e, i, eq, h) ==
    IF buffer = None
      THEN Iterate(eq, task_queue,
                   [h EXCEPT !.log = @ \cup {<<"skipping buffer", e.id>>},
                             !.task_done = @ + 1])
      ELSE LET folder_name == e.src_path
           IN Iterate(eq, Append(task_queue, folder_name),
                      [h EXCEPT !.log = @ \cup {<<"adding folder", e.id>>},
                                !.puts = Append(@, [id |-> e.id,
                                                   value |-> folder_name]),
                                !.task_done = @ + 1])

\* asyncio.Queue.full(): a queue of maxsize <= 0 is never full.
Full(q) == maxsize > 0 /\ Len(q) >= maxsize

\* Mutant: on a full buffer the path is dropped and the event marked done.
ForwardDropsWhenFull(e, i, eq, h) ==
    IF buffer = None
      THEN Iterate(eq, task_queue,
                   [h EXCEPT !.log = @ \cup {<<"skipping buffer", e.id>>},
                             !.task_done = @ + 1])
    ELSE IF Full(task_queue)
      THEN Iterate(eq, task_queue,
                   [h EXCEPT !.log = @ \cup {<<"adding folder", e.id>>},
                             !.task_done = @ + 1])
      ELSE LET folder_name == IF "new_folder" \in DOMAIN i
                              THEN Str(i["new_folder"]) ELSE e.src_path
           IN Iterate(eq, Append(task_queue, folder_name),
                      [h EXCEPT !.log = @ \cup {<<"adding folder", e.id>>},
                                !.puts = Append(@, [id |-> e.id,
                                                   value |-> folder_name]),
                                !.task_done = @ + 1])

\* From `if self.buffer is None:` to the end of the loop body.  What is put
\* is str(folder_name); src_path is a str, which str() returns as it is.
\* `await self.buffer.put(...)` suspends on a full buffer only: the
\* coroutine gives the loop back and holds the event until space is free.
Forward(e, i, eq, h) ==
    IF buffer = None
      THEN Iterate(eq, task_queue,
                   [h EXCEPT !.log = @ \cup {<<"skipping buffer", e.id>>},
                             !.task_done = @ + 1])
    ELSE IF Full(task_queue)
      THEN /\ proc_pc' = "put"
           /\ event' = e
           /\ info' = i
           /\ vidx' = 0
           /\ combined_info' = EmptyInfo
           /\ current' = "idle"
           /\ event_queue' = eq
           /\ hist' = [h EXCEPT !.suspended = @ \cup {e.id}]
           /\ UNCHANGED task_queue
      ELSE LET folder_name == IF "new_folder" \in DOMAIN i
                              THEN Str(i["new_folder"]) ELSE e.src_path
           IN Iterate(eq, Append(task_queue, folder_name),
                      [h EXCEPT !.log = @ \cup {<<"adding folder", e.id>>},
                                !.puts = Append(@, [id |-> e.id,
                                                   value |-> folder_name]),
                                !.task_done = @ + 1])

\* Mutant: without delay the event is marked done and not forwarded.
AfterValidationSkipsPut(e, i, eq, h) ==
    IF process_delay # 0
      THEN /\ proc_pc' = "sleep"
           /\ event' = e
           /\ info' = i
           /\ vidx' = 0
           /\ combined_info' = EmptyInfo
           /\ current' = "idle"
           /\ event_queue' = eq
           /\ hist' = h
           /\ UNCHANGED task_queue
      ELSE Iterate(eq, task_queue,
                   [h EXCEPT !.log = @ \cup {<<"skipping buffer", e.id>>},
                             !.task_done = @ + 1])

\* `if self.process_delay: await asyncio.sleep(self.process_delay)`.
AfterValidation(e, i, eq, h) ==
    IF process_delay # 0
      THEN /\ proc_pc' = "sleep"
           /\ event' = e
           /\ info' = i
           /\ vidx' = 0
           /\ combined_info' = EmptyInfo
           /\ current' = "idle"
           /\ event_queue' = eq
           /\ hist' = h
           /\ UNCHANGED task_queue
      ELSE Forward(e, i, eq, h)

\* Mutant: the `continue` of the rejected branch is missing.
OnInvalidFallsThrough(e, i, eq, h) ==
    AfterValidation(e, i, eq,
                    [h EXCEPT !.rejected = @ \cup {e.id},
                              !.errors = @ \cup {<<e.id, ErrorOf(i)>>},
                              !.returned = @ \cup {<<e.id, i>>},
                              !.log = @ \cup {<<"validation failed", e.id>>},
                              !.task_done = @ + 1])

\* Mutant: the rejected branch does not call task_done().
OnInvalidNoTaskDone(e, i, eq, h) ==
    Iterate(eq, task_queue,
            [h EXCEPT !.rejected = @ \cup {e.id},
                      !.errors = @ \cup {<<e.id, ErrorOf(i)>>},
                      !.returned = @ \cup {<<e.id, i>>},
                      !.log = @ \cup {<<"validation failed", e.id>>}])

\* `if not valid:` log, task_done(), continue.
OnInvalid(e, i, eq, h) ==
    Iterate(eq, task_queue,
            [h EXCEPT !.rejected = @ \cup {e.id},
                      !.errors = @ \cup {<<e.id, ErrorOf(i)>>},
                      !.returned = @ \cup {<<e.id, i>>},
                      !.log = @ \cup {<<"validation failed", e.id>>},
                      !.task_done = @ + 1])

\* Mutant: the processor takes the next event while one is being delayed.
CanGetWhileDelayed ==
    /\ proc_pc \in {"get", "sleep"}
    /\ current \in {"idle", "processor"}

\* The processor may take an event: it waits in get() and the loop is free,
\* or it has just finished an event and kept the loop.
CanGet ==
    /\ proc_pc = "get"
    /\ current \in {"idle", "processor"}

\* event = await self.event_queue.get(), then up to the first stat call of
\* the validator, or through the whole body when no validator is configured.
ProcGet ==
    /\ CanGet
    /\ event_queue # <<>>
    /\ LET e == Head(event_queue)
           eq == Tail(event_queue)
           h == [hist EXCEPT !.dequeued = @ + 1]
       IN IF validator.kind = None
            THEN AfterValidation(e, EmptyInfo, eq, h)
          ELSE IF Chain(validator) = <<>>
            THEN AfterValidation(e, EmptyInfo, eq,
                                 [h EXCEPT !.accepted = @ \cup {e.id},
                                           !.returned = @ \cup {<<e.id, EmptyInfo>>}])
          ELSE /\ proc_pc' = "exists"
               /\ event' = e
               /\ info' = EmptyInfo
               /\ vidx' = 1
               /\ combined_info' = EmptyInfo
               /\ current' = "processor"
               /\ event_queue' = eq
               /\ hist' = [h EXCEPT !.invoked = @ \cup {<<e.id, 1>>}]
               /\ UNCHANGED task_queue
    /\ UNCHANGED <<config, shotlog, syncVars, fs, observerVars, emitted, ready,
                   mgrVars, consVars>>

\* An exception leaves process_events: the task ends with it.
OnRaise(e, i, h) ==
    /\ proc_pc' = "crashed"
    /\ info' = i
    /\ current' = "idle"
    /\ hist' = [h EXCEPT !.raised = @ \cup {e.id}]
    /\ UNCHANGED <<event, vidx, combined_info, event_queue, task_queue>>

\* Mutant: a key that is already in combined_info keeps its value.
OnValidEarlierWins(e, i, eq, h) ==
    LET merged == combined_info @@ i
    IN IF vidx < Len(Chain(validator))
         THEN /\ proc_pc' = "exists"
              /\ info' = EmptyInfo
              /\ vidx' = vidx + 1
              /\ combined_info' = merged
              /\ hist' = [h EXCEPT !.invoked = @ \cup {<<e.id, vidx + 1>>}]
              /\ UNCHANGED <<event, current, event_queue, task_queue>>
         ELSE AfterValidation(e, merged, eq,
                              [h EXCEPT !.accepted = @ \cup {e.id},
                                        !.returned = @ \cup {<<e.id, merged>>}])

\* Mutant: the chain ends with the first validator that accepts.
OnValidEndsChain(e, i, eq, h) ==
    AfterValidation(e, i, eq,
                    [h EXCEPT !.accepted = @ \cup {e.id},
                              !.returned = @ \cup {<<e.id, i>>}])

\* The validator at vidx returned (True, i): combined_info.update(i), then
\* the next validator of the chain, or the end of validate() and of
\* `if self.validator:` in process_events.
OnValid(e, i, eq, h) ==
    LET merged == i @@ combined_info
    IN IF vidx < Len(Chain(validator))
         THEN /\ proc_pc' = "exists"
              /\ info' = EmptyInfo
              /\ vidx' = vidx + 1
              /\ combined_info' = merged
              /\ hist' = [h EXCEPT !.invoked = @ \cup {<<e.id, vidx + 1>>}]
              /\ UNCHANGED <<event, current, event_queue, task_queue>>
         ELSE AfterValidation(e, merged, eq,
                              [h EXCEPT !.accepted = @ \cup {e.id},
                                        !.returned = @ \cup {<<e.id, merged>>}])

\* One stat call of validate(event.src_path) of the validator at vidx and the
\* code that follows it up to the next stat call.
ProcStat ==
    /\ proc_pc \in StatSteps
    /\ LET r == ValidateStep(Chain(validator)[vidx], event.src_path, proc_pc,
                             fs[event.src_path] = "present", info)
       IN CASE r.to = "reject" -> OnInvalid(event, r.info, event_queue, hist)
            [] r.to = "raise"  -> OnRaise(event, r.info, hist)
            [] r.to = "accept" -> OnValid(event, r.info, event_queue, hist)
            [] OTHER -> /\ proc_pc' = r.to
                        /\ info' = r.info
                        /\ UNCHANGED <<event, vidx, combined_info, current,
                                       event_queue, task_queue, hist>>
    /\ UNCHANGED <<config, shotlog, syncVars, fs, observerVars, emitted, ready,
                   mgrVars, consVars>>

\* asyncio.sleep(process_delay) is over.
ProcSleepDone ==
    /\ proc_pc = "sleep"
    /\ current = "idle"
    /\ Forward(event, info, event_queue, hist)
    /\ UNCHANGED <<config, shotlog, syncVars, fs, observerVars, emitted, ready,
                   mgrVars, consVars>>

\* The consumer of the buffer has freed space: Queue.put() wakes up, finds the
\* queue no longer full and puts the path; then task_done() and the top of
\* the loop.
ProcPutDone ==
    /\ proc_pc = "put"
    /\ current = "idle"
    /\ ~Full(task_queue)
    /\ LET folder_name == IF "new_folder" \in DOMAIN info
                           THEN Str(info["new_folder"]) ELSE event.src_path
       IN Iterate(event_queue, Append(task_queue, folder_name),
                  [hist EXCEPT !.log = @ \cup {<<"adding folder", event.id>>},
                               !.puts = Append(@, [id |-> event.id,
                                                  value |-> folder_name]),
                               !.task_done = @ + 1])
    /\ UNCHANGED <<config, shotlog, syncVars, fs, observerVars, emitted, ready,
                   mgrVars, consVars>>

\* ------------------------------------------------------------- consumer
Outcomes == {"return", "raise"}

\* finally: task_queue.task_done(), then the top of `while True`.
ConsIterate(tq, h) ==
    /\ cons_pc' = "get"
    /\ cons_task' = None
    /\ task_queue' = tq
    /\ current' = IF tq # <<>> THEN "consumer" ELSE "idle"
    /\ hist' = [h EXCEPT !.tq_task_done = @ + 1]

\* Mutant: an exception of the callback leaves the consumer's loop.
OnCallbackResultUncaught(outcome, tq, h) ==
    IF outcome = "raise"
      THEN /\ cons_pc' = "crashed"
           /\ cons_task' = None
           /\ task_queue' = tq
           /\ current' = "idle"
           /\ hist' = [h EXCEPT !.cb_raised = @ \cup {Len(h.consumed)},
                                !.tq_task_done = @ + 1]
      ELSE ConsIterate(tq, h)

\* Mutant: an exception of the callback skips task_done().
OnCallbackResultSkipsTaskDone(outcome, tq, h) ==
    LET k == Len(h.consumed)
    IN IF outcome = "raise"
         THEN /\ cons_pc' = "get"
              /\ cons_task' = None
              /\ task_queue' = tq
              /\ current' = IF tq # <<>> THEN "consumer" ELSE "idle"
              /\ hist' = [h EXCEPT !.cb_raised = @ \cup {k},
                                   !.cb_logged = @ \cup {k}]
         ELSE ConsIterate(tq, h)

\* The callback given the k-th consumed item returned or raised.
\* `except Exception`: log the exception; the loop goes on.
OnCallbackResult(outcome, tq, h) ==
    LET k == Len(h.consumed)
    IN ConsIterate(tq, IF outcome = "raise"
                         THEN [h EXCEPT !.cb_raised = @ \cup {k},
                                        !.cb_logged = @ \cup {k}]
                         ELSE h)

\* task = await self.task_queue.get(), then the callback: a synchronous one
\* runs to its end, an async one runs to its first suspension.
ConsGet(outcome) ==
    /\ cons_pc = "get"
    /\ current \in {"idle", "consumer"}
    /\ task_queue # <<>>
    /\ LET t == Head(task_queue)
           tq == Tail(task_queue)
           h == [hist EXCEPT !.taken = @ + 1, !.consumed = Append(@, t)]
       IN CASE consume_callback = None ->
                 /\ outcome = "return"
                 /\ ConsIterate(tq, [hist EXCEPT !.taken = @ + 1])
            [] consume_callback = "sync" -> OnCallbackResult(outcome, tq, h)
            [] OTHER -> /\ outcome = "return"
                        /\ cons_pc' = "callback"
                        /\ cons_task' = t
                        /\ task_queue' = tq
                        /\ current' = "idle"
                        /\ hist' = h
    /\ UNCHANGED <<config, shotlog, syncVars, fs, observerVars, emitted, ready,
                   event_queue, procVars, mgrVars>>

\* The awaited async callback returns or raises.
ConsCallbackDone(outcome) ==
    /\ cons_pc = "callback"
    /\ current = "idle"
    /\ OnCallbackResult(outcome, task_queue, hist)
    /\ UNCHANGED <<config, shotlog, syncVars, fs, observerVars, emitted, ready,
                   event_queue, procVars, mgrVars>>

\* ------------------------------------------------------------- PathTaskManager
\* run() up to its await: start_in_thread(), create the two tasks and extend
\* self._tasks; each new task runs to its first await.  run() tests nothing
\* before it does so.
RunBody ==
    /\ StartInThread
    /\ mgr' = "running"
    /\ proc_pc' = "get"
    /\ event' = NoEvent
    /\ info' = EmptyInfo
    /\ vidx' = 0
    /\ combined_info' = EmptyInfo
    /\ cons_pc' = "get"
    /\ cons_task' = None
    /\ tasks' = tasks \cup {"processor", "consumer"}
    /\ run_pc' = "gather"
    /\ UNCHANGED <<config, shotlog, syncVars, fs, observer, emitted, ready,
                   event_queue, task_queue, current, hist>>

\* The first call of run().
Run ==
    /\ mgr = "created"
    /\ RunBody

\* run() called again once stop() has returned and the first run() has ended.
RunAfterStop ==
    /\ mgr = "stopped"
    /\ run_pc \in {"raised", "cancelled"}
    /\ obs_log.start_in_thread < MaxStarts
    /\ RunBody

\* await asyncio.gather(processor_task, consumer_task): the first task that
\* ends with an exception or is cancelled ends the gather, and run() with it;
\* the other task is left as it is.
GatherDone ==
    /\ run_pc = "gather"
    /\ current = "idle"
    /\ \/ proc_pc \in {"crashed", "cancelled"}
       \/ cons_pc \in {"crashed", "cancelled"}
    /\ run_pc' = IF proc_pc = "crashed" \/ cons_pc = "crashed"
                 THEN "raised" ELSE "cancelled"
    /\ UNCHANGED <<config, shotlog, syncVars, fs, observerVars, emitted, ready,
                   event_queue, task_queue, current, procVars, mgr, tasks,
                   consVars, hist>>

\* Task.cancel(): CancelledError is thrown into the coroutine at the await
\* where it is suspended; a finished task is left as it is.
CancelProcessor(pc) ==
    IF pc \in {"get", "sleep", "put"} THEN "cancelled" ELSE pc
CancelConsumer(pc) == IF pc \in {"get", "callback"} THEN "cancelled" ELSE pc

\* Mutant: stop() empties both queues before it cancels the tasks.
StopDrains ==
    /\ current = "idle"
    /\ observer' = ObserverAfterStop
    /\ IF ObserverStopRaises
         THEN /\ hist' = [hist EXCEPT !.stop_raised = @ \cup {mgr}]
              /\ UNCHANGED <<mgr, proc_pc, cons_pc, event_queue, task_queue>>
         ELSE /\ mgr' = "stopped"
              /\ proc_pc' = IF "processor" \in tasks
                            THEN CancelProcessor(proc_pc) ELSE proc_pc
              /\ cons_pc' = IF "consumer" \in tasks
                            THEN CancelConsumer(cons_pc) ELSE cons_pc
              /\ event_queue' = <<>>
              /\ task_queue' = <<>>
              /\ hist' = [hist EXCEPT !.tq_task_done =
                            IF cons_pc = "callback" THEN @ + 1 ELSE @]
    /\ UNCHANGED <<config, shotlog, syncVars, fs, thread, obs_log, emitted,
                   ready, current, event, info, vidx, combined_info, tasks,
                   run_pc, cons_task>>

\* Mutant: stop() cancels the tasks before it stops the observer.
StopCancelsFirst ==
    /\ current = "idle"
    /\ observer' = ObserverAfterStop
    /\ mgr' = IF ObserverStopRaises THEN mgr ELSE "stopped"
    /\ proc_pc' = IF "processor" \in tasks
                  THEN CancelProcessor(proc_pc) ELSE proc_pc
    /\ cons_pc' = IF "consumer" \in tasks
                  THEN CancelConsumer(cons_pc) ELSE cons_pc
    /\ hist' = [hist EXCEPT
                  !.stop_raised = IF ObserverStopRaises
                                  THEN @ \cup {mgr} ELSE @,
                  !.tq_task_done =
                      IF cons_pc = "callback" /\ "consumer" \in tasks
                      THEN @ + 1 ELSE @]
    /\ UNCHANGED <<config, shotlog, syncVars, fs, thread, obs_log, emitted,
                   ready, event_queue, task_queue, current, event, info, vidx,
                   combined_info, tasks, run_pc, cons_task>>

\* stop(), called on the loop's thread between two steps of the loop, at any
\* time and any number of times: self.observer.stop(), then cancel every task
\* of self._tasks.  The consumer cancelled in its callback runs
\* `finally: task_done()`.
Stop ==
    /\ current = "idle"
    /\ observer' = ObserverAfterStop
    /\ IF ObserverStopRaises
         THEN /\ hist' = [hist EXCEPT !.stop_raised = @ \cup {mgr}]
              /\ UNCHANGED <<mgr, proc_pc, cons_pc>>
         ELSE /\ mgr' = "stopped"
              /\ proc_pc' = IF "processor" \in tasks
                            THEN CancelProcessor(proc_pc) ELSE proc_pc
              /\ cons_pc' = IF "consumer" \in tasks
                            THEN CancelConsumer(cons_pc) ELSE cons_pc
              /\ hist' = [hist EXCEPT !.tq_task_done =
                            IF cons_pc = "callback" THEN @ + 1 ELSE @]
    /\ UNCHANGED <<config, shotlog, syncVars, fs, thread, obs_log, emitted,
                   ready, event_queue, task_queue, current, event, info, vidx,
                   combined_info, tasks, run_pc, cons_task>>

\* ------------------------------------------------------------- specification
Next ==
    \/ Run
    \/ RunObserver
    \/ \E p \in Paths, t \in EventTypes : WatcherEmit(p, t)
    \/ \E p \in Paths : Unlink(p)
    \/ RunCallback
    \/ ProcGet
    \/ ProcStat
    \/ ProcSleepDone
    \/ \E o \in Outcomes : ConsGet(o)
    \/ \E o \in Outcomes : ConsCallbackDone(o)
    \/ GatherDone
    \/ Stop

Spec == Init /\ [][Next]_vars

\* The manager used again after stop(): the configurations of Init with the
\* running loop and every path allowed, and run() callable after stop().
LifecycleInit ==
    /\ Init
    /\ handler_loop = "running"
    /\ regexes = {}

LifecycleNext ==
    \/ Next
    \/ RunAfterStop

LifecycleSpec == LifecycleInit /\ [][LifecycleNext]_vars

\* The pipeline of a manager whose processor is given any validator of a
\* family: file validators over name patterns and size bounds, folder
\* validators, and chains of them.
SizeMins == {{}, {0}, {2}}
SizeMaxs == {{}, {0}, {1}, {2}}

FileValidators ==
    {FileValidator(pattern, smin, smax) :
        pattern \in {None, "txt"}, smin \in SizeMins, smax \in SizeMaxs}

FolderValidators == {FolderValidator(None), FolderValidator("sub")}

CompositeValidators ==
    {CompositeValidator(<<>>),
     CompositeValidator(<<FileValidator("txt", {}, {}),
                          FileValidator(None, {}, {1})>>),
     CompositeValidator(<<FileValidator(None, {0}, {}),
                          FileValidator("o", {}, {1})>>),
     CompositeValidator(<<FolderValidator(None), FileValidator(None, {}, {})>>),
     CompositeValidator(<<FileValidator(None, {}, {}), FolderValidator("sub")>>)}

ValidatorInit ==
    /\ handler = AsyncEventHandler
    /\ handler_loop = "running"
    /\ regexes = {}
    /\ ignore_regexes = {}
    /\ ignore_directories = FALSE
    /\ validation_enabled = FALSE
    /\ validation_timeout = 2
    /\ maxsize = 0
    /\ process_delay = 0
    /\ validator \in FileValidators \cup FolderValidators \cup CompositeValidators
    /\ buffer = "task_queue"
    /\ consume_callback = None
    /\ Constructed

ValidatorNext ==
    \/ Run
    \/ RunObserver
    \/ \E p \in AllPaths : WatcherEmit(p, "created")
    \/ \E p \in AllPaths : Unlink(p)
    \/ RunCallback
    \/ ProcGet
    \/ ProcStat

ValidatorSpec == ValidatorInit /\ [][ValidatorNext]_vars

\* The same pipeline with validators that have date bounds, validators
\* written by the user, and chains of them.  The files have creation time 1
\* and modified times 1 and 2, the directory has 0 and 0.
CreationMins == {{}, {2}}
CreationMaxs == {{}, {0}}
ModifiedMins == {{}, {2}}
ModifiedMaxs == {{}, {1}}

DatedFileValidators ==
    {WithDates(v, cmin, cmax, mmin, mmax) :
        v \in {FileValidator(None, {}, {}), FileValidator("txt", {3}, {1})},
        cmin \in CreationMins, cmax \in CreationMaxs,
        mmin \in ModifiedMins, mmax \in ModifiedMaxs}

DatedFolderValidators ==
    {WithDates(FolderValidator(pattern), cmin, {}, mmin, {}) :
        pattern \in {None, "txt"},
        cmin \in CreationMins, mmin \in ModifiedMins}

CustomChains ==
    {CompositeValidator(<<CustomValidator(TRUE, Key("filesize", 7)
                                                  @@ Key("tag", "a")),
                          FileValidator(None, {}, {})>>),
     CompositeValidator(<<FileValidator("txt", {}, {}),
                          CustomValidator(TRUE, Key("filesize", 7))>>),
     CompositeValidator(<<CustomValidator(TRUE, Key("tag", "a")),
                          CustomValidator(TRUE, Key("tag", "b")
                                                  @@ Key("filesize", 7)),
                          FileValidator(None, {}, {1})>>),
     CompositeValidator(<<FileValidator(None, {}, {}),
                          CustomValidator(FALSE, Key("error", "custom")
                                                   @@ Key("tag", "b"))>>)}

ChecksInit ==
    /\ handler = AsyncEventHandler
    /\ handler_loop = "running"
    /\ regexes = {}
    /\ ignore_regexes = {}
    /\ ignore_directories = FALSE
    /\ validation_enabled = FALSE
    /\ validation_timeout = 2
    /\ maxsize = 0
    /\ process_delay = 0
    /\ validator \in DatedFileValidators \cup DatedFolderValidators
                       \cup CompositeValidators \cup CustomChains
    /\ buffer = "task_queue"
    /\ consume_callback = None
    /\ Constructed

ChecksSpec == ChecksInit /\ [][ValidatorNext]_vars

\* The pipeline of a processor whose validator may return the reserved key
\* new_folder, with a str, a pathlib.Path or None under it, and with or
\* without delay.
AttributeValue(type, value) == [type |-> type, value |-> value]

OverrideValidators ==
    {NoValidator,
     FileValidator(None, {}, {}),
     CustomValidator(TRUE, Key("new_folder", AttributeValue("str", "/out/a"))),
     CustomValidator(TRUE, Key("new_folder", AttributeValue("Path", "/out/b"))
                             @@ Key("tag", "a")),
     CustomValidator(TRUE, Key("new_folder", AttributeValue("NoneType", None))),
     CustomValidator(FALSE, Key("new_folder", AttributeValue("str", "/out/a"))
                              @@ Key("error", "custom")),
     CompositeValidator(<<FileValidator("txt", {}, {}),
                          CustomValidator(TRUE,
                              Key("new_folder",
                                  AttributeValue("Path", "/out/b")))>>)}

OverrideInit ==
    /\ handler = AsyncEventHandler
    /\ handler_loop = "running"
    /\ regexes = {}
    /\ ignore_regexes = {}
    /\ ignore_directories = FALSE
    /\ validation_enabled = FALSE
    /\ validation_timeout = 2
    /\ maxsize = 0
    /\ process_delay \in {0, 2}
    /\ validator \in OverrideValidators
    /\ buffer = "task_queue"
    /\ consume_callback = None
    /\ Constructed

OverrideNext ==
    \/ ValidatorNext
    \/ ProcSleepDone

OverrideSpec == OverrideInit /\ [][OverrideNext]_vars

\* A PathObserver given one of the three handlers and started by its owner, as
\* in the handlers' tests: any allow-list, deny-list and directory flag.  Only
\* the validation of the synchronous handlers looks at the disk, and only at
\* directories.
BridgeInit ==
    /\ handler \in {AsyncEventHandler, TestDataEventHandler, LastShotEventHandler}
    /\ handler_loop = "running"
    /\ regexes \in {{}, {<<>>}, {<<".*\\.txt$">>}, {<<".*\\.txt$", ".*/sub$">>}}
    /\ ignore_regexes \in {{}, {<<".*Shot.*">>}}
    /\ ignore_directories \in BOOLEAN
    /\ validation_enabled \in IF handler = AsyncEventHandler
                               THEN {FALSE} ELSE BOOLEAN
    /\ validation_timeout = 2
    /\ maxsize = 0
    /\ process_delay = 0
    /\ validator = NoValidator
    /\ buffer = "task_queue"
    /\ consume_callback = None
    /\ Constructed

BridgeNext ==
    \/ StartInThreadCall
    \/ RunObserver
    \/ \E p \in AllPaths, t \in EventTypes : WatcherEmit(p, t)
    \/ \E p \in AllPaths, t \in EventTypes, inc \in CounterOutcomes :
          SyncDispatch(p, t, inc)
    \/ SyncPoll
    \/ \E outcome \in ReadOutcomes, inc \in CounterOutcomes :
          SyncRead(outcome, inc)
    \/ Tick
    \/ WriteShotLog
    \/ \E p \in {q \in AllPaths : Stat(q).is_dir} : Unlink(p)
    \/ RunCallback

BridgeSpec == BridgeInit /\ [][BridgeNext]_vars

\* A PathObserver given a synchronous handler without filters, with
\* validation enabled or not and with a validation timeout of 2 or of 0.
SyncInit ==
    /\ handler \in {TestDataEventHandler, LastShotEventHandler}
    /\ handler_loop = "running"
    /\ regexes = {}
    /\ ignore_regexes = {}
    /\ ignore_directories = FALSE
    /\ validation_enabled \in BOOLEAN
    /\ validation_timeout \in IF validation_enabled THEN {0, 2} ELSE {2}
    /\ maxsize = 0
    /\ process_delay = 0
    /\ validator = NoValidator
    /\ buffer = "task_queue"
    /\ consume_callback = None
    /\ Constructed

SyncNext ==
    \/ StartInThreadCall
    \/ RunObserver
    \/ \E p \in AllPaths, t \in EventTypes, inc \in CounterOutcomes :
          SyncDispatch(p, t, inc)
    \/ SyncPoll
    \/ \E outcome \in ReadOutcomes, inc \in CounterOutcomes :
          SyncRead(outcome, inc)
    \/ Tick
    \/ WriteShotLog
    \/ \E p \in {q \in AllPaths : Stat(q).is_dir} : Unlink(p)

SyncSpec == SyncInit /\ [][SyncNext]_vars

\* The manager whose watcher may fail to start, for instance because
\* path_to_monitor is not there yet, and whose owner may call
\* start_in_thread() of the observer again.  No validator: the loops have
\* nothing else to fail on.
StartFaultInit ==
    /\ Init
    /\ handler_loop = "running"
    /\ regexes = {}
    /\ validator = NoValidator

StartFaultNext ==
    \/ Run
    \/ RunObserver
    \/ RunObserverFault
    \/ mgr = "running" /\ StartInThreadCall
    \/ \E p \in Paths, t \in EventTypes : WatcherEmit(p, t)
    \/ RunCallback
    \/ ProcGet
    \/ ProcSleepDone
    \/ \E o \in Outcomes : ConsGet(o)
    \/ \E o \in Outcomes : ConsCallbackDone(o)

StartFaultSpec == StartFaultInit /\ [][StartFaultNext]_vars

\* The stand-alone pipeline of main.py with a bounded input_buffer: a handler
\* on the running loop without allow-list, an EventProcessor with the buffer
\* and a polling consumer of the buffer.  The buffer may hold a path its owner
\* put before main() runs.
BufferSizes == {1, 2}
HeldPaths == {<<>>, <<"/in/earlier">>}

BoundedInit ==
    /\ handler = AsyncEventHandler
    /\ handler_loop = "running"
    /\ regexes = {}
    /\ ignore_regexes = {}
    /\ ignore_directories = FALSE
    /\ validation_enabled = FALSE
    /\ validation_timeout = 2
    /\ process_delay \in {0, 2}
    /\ validator \in Validators
    /\ buffer = "task_queue"
    /\ maxsize \in BufferSizes
    /\ consume_callback = None
    /\ \E held \in HeldPaths : ConstructedWith(held)

\* main(): observer.start_in_thread(), then the two tasks are created and run
\* to their first await.
Main ==
    /\ proc_pc = "created"
    /\ StartInThread
    /\ proc_pc' = "get"
    /\ cons_pc' = "get"
    /\ UNCHANGED <<config, shotlog, syncVars, fs, observer, emitted, ready,
                   event_queue, task_queue, current, event, info, vidx,
                   combined_info, cons_task, mgrVars, hist>>

\* consume_input_buffer(): `if input_buffer.qsize() > 0:` get() and
\* task_done(); the coroutine keeps the loop while the buffer holds a path and
\* sleeps once it is empty.
ConsumeInputBuffer ==
    /\ cons_pc = "get"
    /\ current \in {"idle", "consumer"}
    /\ task_queue # <<>>
    /\ task_queue' = Tail(task_queue)
    /\ current' = IF Tail(task_queue) # <<>> THEN "consumer" ELSE "idle"
    /\ hist' = [hist EXCEPT !.consumed = Append(@, Head(task_queue)),
                            !.tq_task_done = @ + 1]
    /\ UNCHANGED <<config, shotlog, syncVars, fs, observerVars, emitted, ready,
                   event_queue, procVars, mgrVars, consVars>>

BoundedNext ==
    \/ Main
    \/ RunObserver
    \/ \E p \in Paths, t \in EventTypes : WatcherEmit(p, t)
    \/ RunCallback
    \/ ProcGet
    \/ ProcStat
    \/ ProcSleepDone
    \/ ProcPutDone
    \/ ConsumeInputBuffer

BoundedSpec == BoundedInit /\ [][BoundedNext]_vars

\* The manager left to run, never stopped, under fair scheduling: the loop is
\* the running one, so that posted events reach the event queue, and the
\* queues are unbounded.  The asyncio loop runs every callback and every task
\* that is ready, and a sleep ends; the watcher and the filesystem are under
\* no obligation.
FairInit ==
    /\ Init
    /\ handler_loop = "running"
    /\ regexes = {}

FairNext ==
    \/ Run
    \/ RunObserver
    \/ \E p \in Paths, t \in EventTypes : WatcherEmit(p, t)
    \/ \E p \in Paths : Unlink(p)
    \/ RunCallback
    \/ ProcGet
    \/ ProcStat
    \/ ProcSleepDone
    \/ \E o \in Outcomes : ConsGet(o)
    \/ \E o \in Outcomes : ConsCallbackDone(o)
    \/ GatherDone

Fairness ==
    /\ WF_vars(RunCallback)
    /\ WF_vars(ProcGet)
    /\ WF_vars(ProcStat)
    /\ WF_vars(ProcSleepDone)
    /\ WF_vars(\E o \in Outcomes : ConsGet(o))
    /\ WF_vars(\E o \in Outcomes : ConsCallbackDone(o))

FairSpec == FairInit /\ [][FairNext]_vars /\ Fairness

\* An AsyncEventHandler constructed without allow-list (regexes=None) or with
\* an empty one (regexes=[]), by its owner or by a PathTaskManager whose
\* whitelisted_patterns is empty, with any deny-list and directory flag, on an
\* observer started by its owner.
EmptyAllowListInit ==
    /\ handler = AsyncEventHandler
    /\ handler_loop = "running"
    /\ regexes \in {{}, {<<>>}}
    /\ ignore_regexes \in {{}, {<<".*Shot.*">>}}
    /\ ignore_directories \in BOOLEAN
    /\ validation_enabled = FALSE
    /\ validation_timeout = 2
    /\ maxsize = 0
    /\ process_delay = 0
    /\ validator = NoValidator
    /\ buffer = "task_queue"
    /\ consume_callback = None
    /\ Constructed

EmptyAllowListNext ==
    \/ StartInThreadCall
    \/ RunObserver
    \/ \E p \in AllPaths, t \in EventTypes : WatcherEmit(p, t)
    \/ RunCallback

EmptyAllowListSpec == EmptyAllowListInit /\ [][EmptyAllowListNext]_vars

\* A PathObserver driven directly by its owner, as in the observer's tests.
ObserverNext ==
    \/ StartInThreadCall
    \/ RunObserver
    \/ ObserverStop
    \/ \E p \in Paths, t \in EventTypes : WatcherEmit(p, t)

ObserverSpec == Init /\ [][ObserverNext]_vars


\* ------------------------------------------------------------- properties
Ids(q) == [k \in 1..Len(q) |-> q[k].id]
Values(q) == [k \in 1..Len(q) |-> q[k].value]
Increasing(q) == \A j, k \in 1..Len(q) : j < k => q[j] < q[k]
IsPrefix(a, b) == Len(a) <= Len(b) /\ a = SubSeq(b, 1, Len(a))
InFlight == hist.dequeued - hist.task_done

\* C1: with a validator configured, every path put into the task queue comes
\* from an event the validator accepted, and no event the validator rejected
\* is ever put.
C1_RejectedNeverQueued ==
    \A k \in 1..Len(hist.puts) :
        /\ hist.puts[k].id \notin hist.rejected
        /\ validator.kind # None => hist.puts[k].id \in hist.accepted

\* A rejected event and a forwarded one, with a validator configured.
C1_Witness ==
    /\ validator.kind # None
    /\ hist.rejected # {}
    /\ hist.puts # <<>>

\* C2: task_done() is called once per event that left through one of the three
\* exit branches; the calls never exceed the events dequeued and equal them
\* whenever the processor is at event_queue.get().
C2_TaskDoneOncePerEvent ==
    /\ hist.task_done <= hist.dequeued
    /\ hist.task_done = Cardinality(hist.log)
    /\ proc_pc = "get" => hist.task_done = hist.dequeued

\* One event was rejected and another discarded for want of a buffer.
C2_Witness ==
    /\ proc_pc = "get"
    /\ \E a, b \in 1..MaxEvents :
          /\ <<"validation failed", a>> \in hist.log
          /\ <<"skipping buffer", b>> \in hist.log

\* C3: events keep the order in which the watcher emitted them: at the bridge
\* (event queue), at the processor (task queue puts) and at the consumer
\* (callback invocations follow the puts one for one).
C3_OrderPreserved ==
    /\ Increasing(Ids(hist.enqueued))
    /\ Increasing(Ids(hist.puts))
    /\ IsPrefix(hist.consumed, Values(hist.puts))

\* Two events for different paths went through to the callback.
C3_Witness ==
    /\ Len(hist.consumed) = 2
    /\ hist.consumed[1] # hist.consumed[2]

\* C4: at most one event is dequeued and not yet marked done.
C4_OneInFlight ==
    /\ InFlight \in {0, 1}
    /\ InFlight = 1 <=> event # NoEvent

\* The watcher's next event reached the event queue during the delay.
C4_Witness ==
    /\ proc_pc = "sleep"
    /\ event_queue # <<>>

\* C5: the events the watcher thread posted reach the event queue once each
\* and in the order of posting: what was posted is what was put followed by
\* what still waits in the loop, and the queue holds the puts not yet taken.
C5_ThreadSafeFifo ==
    /\ hist.posted = hist.enqueued \o ready
    /\ Increasing(Ids(hist.posted))
    /\ hist.dequeued <= Len(hist.enqueued)
    /\ event_queue = SubSeq(hist.enqueued, hist.dequeued + 1, Len(hist.enqueued))

\* The first event has been put and taken by the processor, which holds the
\* loop in the validator; the second one, posted by the watcher thread, waits
\* in the loop.
C5_Witness ==
    /\ Len(hist.enqueued) = 1
    /\ hist.dequeued = 1
    /\ proc_pc \in StatSteps
    /\ Len(ready) = 1

\* C6: with the manager built without a loop argument, once a file that the
\* bridge and the validator accept has been reported and the pipeline has
\* nothing left to do, the callback has been invoked.
PipelineIdle ==
    ~ENABLED (RunCallback \/ ProcGet \/ ProcStat \/ ProcSleepDone
              \/ (\E o \in Outcomes : ConsGet(o))
              \/ (\E o \in Outcomes : ConsCallbackDone(o)))

GoodFileReported ==
    /\ fs["/in/LastShot.txt"] = "present"
    /\ \E k \in 1..Len(hist.posted) : hist.posted[k].src_path = "/in/LastShot.txt"

C6_CreatedFileIsConsumed ==
    (/\ handler_loop = "private"
     /\ buffer # None
     /\ consume_callback # None
     /\ mgr = "running"
     /\ GoodFileReported
     /\ PipelineIdle) => hist.consumed # <<>>

\* C7: an event dequeued before the processor was cancelled has been forwarded
\* and marked done, or is logged as dropped.
C7_NoSilentDrop ==
    proc_pc = "cancelled" =>
        \/ event = NoEvent
        \/ <<"dropped", event.id>> \in hist.log

\* C8: validate() raises no error on a path that is not (or no longer) on
\* disk, and the processor goes on.
C8_MissingPathRejected ==
    /\ hist.raised = {}
    /\ proc_pc # "crashed"

\* C9: a step in which the callback raises leaves the consumer at the top of
\* its loop, with the exception logged.
C9_CallbackFaultContained ==
    [][hist'.cb_raised # hist.cb_raised =>
         /\ cons_pc' = "get"
         /\ hist'.cb_logged = hist'.cb_raised]_vars

\* The callback raised for the first item and was invoked for the second.
C9_Witness ==
    /\ 1 \in hist.cb_raised
    /\ Len(hist.consumed) = 2

\* C10: as long as the watcher has not been stopped, every start_in_thread()
\* after the first logs the warning, and the handler is scheduled and the
\* observer started once only.
C10_SecondStartIsNoOp ==
    (obs_log.start_in_thread >= 1 /\ observer \notin {"stopped", "stop_set"}) =>
        /\ obs_log.warnings = obs_log.start_in_thread - 1
        /\ obs_log.schedule <= 1
        /\ obs_log.start <= 1

\* C11: once stop() has stopped the watcher, no event is put into the event
\* queue any more, the events already handed to call_soon_threadsafe whose
\* put_nowait had not run yet included.
C11_NoPutAfterWatcherStopped ==
    [][observer = "stopped" => hist'.enqueued = hist.enqueued]_vars

\* C12: the lifecycle never goes from Stopped back to Running: after stop(), a
\* later run() starts neither a starter thread for the watcher nor new
\* processor and consumer loops.
C12_StoppedIsFinal ==
    [][mgr = "stopped" =>
         /\ mgr' = "stopped"
         /\ thread' = thread
         /\ obs_log' = obs_log
         /\ proc_pc' = proc_pc
         /\ cons_pc' = cons_pc]_vars

\* C13: every call of stop() made once run() has been called returns without
\* raising, and when stop() has returned the watcher is stopped and no task
\* is left running.
TasksDone ==
    /\ proc_pc \in {"created", "cancelled", "crashed"}
    /\ cons_pc \in {"created", "cancelled", "crashed"}

C13_StopIsSafe ==
    /\ "running" \notin hist.stop_raised
    /\ mgr = "stopped" => observer = "stopped" /\ TasksDone

\* C14: run() ends with the first fatal error of its two loops, and run() has
\* not ended while one of the two loops is still running.
C14_RunJoinsBothLoops ==
    /\ run_pc = "raised" => proc_pc = "crashed" \/ cons_pc = "crashed"
    /\ run_pc \in {"raised", "cancelled"} => TasksDone

\* C15: an event whose path matches none of the regexes of the allow-list
\* given to the handler, or matches a regex of the deny-list, is never
\* enqueued: it is neither posted to the loop or the event queue by
\* AsyncEventHandler nor put into the buffer by the synchronous handlers.
MatchesAny(list, path) ==
    \E l \in list : \E i \in 1..Len(l) : RegexMatch(l[i], path)

Suppressed(path) ==
    \/ regexes # {} /\ ~MatchesAny(regexes, path)
    \/ MatchesAny(ignore_regexes, path)

C15_SuppressedNeverEnqueued ==
    /\ \A k \in 1..Len(hist.posted) : ~Suppressed(hist.posted[k].src_path)
    /\ \A k \in 1..Len(event_queue) : ~Suppressed(event_queue[k].src_path)
    /\ \A k \in 1..Len(hist.puts) : ~Suppressed(hist.puts[k].value)

\* C15, amended: the same, where AsyncEventHandler takes an empty allow-list
\* as no allow-list (every path passes it); the synchronous handlers take it
\* as it is (no path passes it).
NoAllowList ==
    \/ regexes = {}
    \/ handler = AsyncEventHandler /\ regexes = {<<>>}

SuppressedByHandler(path) ==
    \/ ~NoAllowList /\ ~MatchesAny(regexes, path)
    \/ MatchesAny(ignore_regexes, path)

C15_SuppressedByHandlerNeverEnqueued ==
    /\ \A k \in 1..Len(hist.posted) :
          ~SuppressedByHandler(hist.posted[k].src_path)
    /\ \A k \in 1..Len(event_queue) :
          ~SuppressedByHandler(event_queue[k].src_path)
    /\ \A k \in 1..Len(hist.puts) :
          ~SuppressedByHandler(hist.puts[k].value)

\* With an allow-list and a deny-list and directories not ignored, dispatch
\* has returned early for one notification and the handler has enqueued
\* another one.
C15_Witness ==
    /\ ~NoAllowList
    /\ ignore_regexes # {}
    /\ ~ignore_directories
    /\ "filtered" \in hist.dropped
    /\ hist.posted # <<>>

\* C16: AsyncEventHandler hands exactly one put_nowait to the loop for a
\* Created or Modified notification that passes the filters, and none for any
\* other notification; a Deleted notification that passes the filters is
\* logged by the inherited handler and leaves the loop and the event queue as
\* they are.
PassesFilters(path) ==
    /\ ~SuppressedByHandler(path)
    /\ ~(ignore_directories /\ Stat(path).is_dir)

C16_OnlyCreatedAndModifiedPost ==
    [][\A path \in AllPaths, t \in EventTypes :
         WatcherEmit(path, t) =>
           /\ event_queue' = event_queue
           /\ IF t \in {"created", "modified"} /\ PassesFilters(path)
                THEN /\ Len(ready') = Len(ready) + 1
                     /\ SubSeq(ready', 1, Len(ready)) = ready
                     /\ ready'[Len(ready')].src_path = path
                     /\ ready'[Len(ready')].event_type = t
                ELSE /\ ready' = ready
                     /\ hist'.posted = hist.posted
                     /\ PassesFilters(path) => "logged" \in hist'.dropped]_vars

\* A Deleted notification was logged and another notification was posted
\* once, by an AsyncEventHandler.
C16_Witness ==
    /\ handler = AsyncEventHandler
    /\ emitted = 2
    /\ "logged" \in hist.dropped
    /\ Len(ready) + Len(event_queue) = 1
    /\ Len(hist.posted) = 1

\* C17: with process_delay = 0, no validator and a buffer, the values put into
\* the task queue are the src_path of the events dequeued so far, one for
\* one and in the order of arrival.
ForwardsVerbatim ==
    /\ process_delay = 0
    /\ validator.kind = None
    /\ buffer # None

C17_ForwardsEveryEventOnce ==
    ForwardsVerbatim =>
        /\ Len(hist.puts) = hist.dequeued
        /\ \A k \in 1..Len(hist.puts) :
              /\ hist.puts[k].value = hist.enqueued[k].src_path
              /\ hist.puts[k].id = hist.enqueued[k].id

\* Two events for different paths were taken and forwarded.
C17_Witness ==
    /\ ForwardsVerbatim
    /\ hist.dequeued = 2
    /\ Len(hist.puts) = 2
    /\ hist.puts[1].value # hist.puts[2].value

\* The event with a given id, the reasons with which it was rejected and the
\* events whose validation has ended.
EventOf(id) ==
    CHOOSE e \in {hist.posted[k] : k \in 1..Len(hist.posted)} : e.id = id

ErrorsOf(id) == {x[2] : x \in {y \in hist.errors : y[1] = id}}
Validated == hist.accepted \cup hist.rejected \cup hist.raised

\* C18: a FileValidator rejects a directory with "is not a file" and a
\* FolderValidator rejects a regular file with "is not a folder", whatever
\* the pattern and the bounds: only the existence check comes before the type
\* check, and no later check is reached.
WrongType(p) ==
    \/ validator.kind = "FileValidator" /\ Stat(p).is_dir
    \/ validator.kind = "FolderValidator" /\ ~Stat(p).is_dir

TypeError ==
    IF validator.kind = "FileValidator" THEN "is not a file"
    ELSE "is not a folder"

C18_TypeInvariant ==
    /\ \A id \in Validated :
          LET p == EventOf(id).src_path
          IN WrongType(p) =>
               /\ id \in hist.rejected
               /\ id \notin hist.accepted \cup hist.raised
               /\ ErrorsOf(id) \in {{TypeError}, {"does not exist"}}
               /\ ErrorsOf(id) = {"does not exist"} => fs[p] = "removed"
    /\ (proc_pc \in StatSteps /\ WrongType(event.src_path)) =>
          proc_pc \in {"exists", "is_type"}

\* A FileValidator with a name pattern and size bounds has rejected a
\* directory as not a file.
C18_Witness ==
    /\ validator.kind = "FileValidator"
    /\ validator.name_pattern # None
    /\ validator.filesize_min # {}
    /\ validator.filesize_max # {}
    /\ \E id \in hist.rejected :
          /\ Stat(EventOf(id).src_path).is_dir
          /\ fs[EventOf(id).src_path] = "present"
          /\ ErrorsOf(id) = {"is not a file"}

\* C19: a FileValidator rejects a file smaller than filesize_min with "less
\* than minimum" and one larger than filesize_max with "greater than maximum";
\* it accepts a size within the bounds, the bounds included and a bound of 0
\* being a bound, and then returns the size under the key filesize.
TooSmall(p) == \E m \in validator.filesize_min : Stat(p).st_size < m
TooLarge(p) == \E m \in validator.filesize_max : Stat(p).st_size > m

ReturnedOf(id) == {x[2] : x \in {y \in hist.returned : y[1] = id}}

C19_SizeRange ==
    validator.kind = "FileValidator" =>
        \A id \in Validated :
            LET p == EventOf(id).src_path
            IN /\ "filesize less than minimum" \in ErrorsOf(id) => TooSmall(p)
               /\ "filesize greater than maximum" \in ErrorsOf(id) =>
                      ~TooSmall(p) /\ TooLarge(p)
               /\ id \in hist.accepted =>
                      /\ ~TooSmall(p) /\ ~TooLarge(p)
                      /\ \A i \in ReturnedOf(id) :
                            /\ "filesize" \in DOMAIN i
                            /\ i["filesize"] = Stat(p).st_size
               /\ (id \in hist.rejected /\ fs[p] = "present"
                     /\ ~Stat(p).is_dir
                     /\ "does not match pattern" \notin ErrorsOf(id)) =>
                      ErrorsOf(id) = {IF TooSmall(p)
                                        THEN "filesize less than minimum"
                                        ELSE "filesize greater than maximum"}

\* With the bounds 0 <= size <= 1 a file of size 1 was accepted and a file
\* of size 2 rejected as too large.
C19_Witness ==
    /\ validator.kind = "FileValidator"
    /\ validator.filesize_min = {0}
    /\ validator.filesize_max = {1}
    /\ \E id \in hist.accepted : Stat(EventOf(id).src_path).st_size = 1
    /\ \E id \in hist.rejected :
          /\ Stat(EventOf(id).src_path).st_size = 2
          /\ ErrorsOf(id) = {"filesize greater than maximum"}

\* C20: a CompositeValidator accepts a path if and only if every validator of
\* its list accepts it; the validators are applied in list order, the result
\* of the first one that rejects is returned as it is, and no validator after
\* that one is invoked.  Stated for paths that stay on disk.
InvokedOf(id) == {x[2] : x \in {y \in hist.invoked : y[1] = id}}

Rejecting(p) ==
    {j \in 1..Len(validator.validators) :
        Validate(validator.validators[j], p, TRUE).to = "reject"}

FirstRejecting(p) == CHOOSE j \in Rejecting(p) : \A k \in Rejecting(p) : j <= k

C20_CompositeShortCircuits ==
    validator.kind = "CompositeValidator" =>
        \A id \in Validated :
            LET p == EventOf(id).src_path
            IN fs[p] = "present" =>
                 /\ id \in hist.accepted <=> Rejecting(p) = {}
                 /\ id \in hist.rejected <=> Rejecting(p) # {}
                 /\ Rejecting(p) = {} =>
                        InvokedOf(id) = 1..Len(validator.validators)
                 /\ Rejecting(p) # {} =>
                        /\ InvokedOf(id) = 1..FirstRejecting(p)
                        /\ ErrorsOf(id) =
                             {Validate(validator.validators[FirstRejecting(p)],
                                       p, TRUE).info["error"]}

\* A chain of two validators has accepted one path and has rejected another
\* one with the result of its second validator.
C20_Witness ==
    /\ validator.kind = "CompositeValidator"
    /\ Len(validator.validators) = 2
    /\ \E id \in hist.accepted : InvokedOf(id) = {1, 2}
    /\ \E id \in hist.rejected :
          /\ InvokedOf(id) = {1, 2}
          /\ ErrorsOf(id) = {"filesize greater than maximum"}

\* C21: when every validator of a CompositeValidator accepts, the map it
\* returns is the union of the validators' maps, a key that several maps hold
\* having the value of the latest validator; when a validator rejects, the
\* map returned is that validator's failure info and nothing else.  Stated
\* for paths that stay on disk.
InfoOf(j, p) == Validate(validator.validators[j], p, TRUE).info

Holders(k, p) ==
    {j \in 1..Len(validator.validators) : k \in DOMAIN InfoOf(j, p)}

Latest(k, p) == CHOOSE j \in Holders(k, p) : \A m \in Holders(k, p) : m <= j

UnionLatestWins(p) ==
    [k \in UNION {DOMAIN InfoOf(j, p) : j \in 1..Len(validator.validators)}
        |-> InfoOf(Latest(k, p), p)[k]]

C21_CompositeMergesLatestWins ==
    validator.kind = "CompositeValidator" =>
        \A id \in Validated :
            LET p == EventOf(id).src_path
            IN fs[p] = "present" =>
                 /\ id \in hist.accepted =>
                        ReturnedOf(id) = {UnionLatestWins(p)}
                 /\ id \in hist.rejected =>
                        ReturnedOf(id) = {InfoOf(FirstRejecting(p), p)}

\* A chain of three validators has accepted a file, with the tag of its
\* second validator and the size found by its third one where the second one
\* had given 7, and has returned for another file the failure info of its
\* third validator after it had merged two maps.
C21_Witness ==
    /\ validator.kind = "CompositeValidator"
    /\ Len(validator.validators) = 3
    /\ \E id \in hist.accepted : \E i \in ReturnedOf(id) :
          /\ InfoOf(1, EventOf(id).src_path)["tag"] = "a"
          /\ InfoOf(2, EventOf(id).src_path)["filesize"] = 7
          /\ i["tag"] = "b"
          /\ i["filesize"] = 1
    /\ \E id \in hist.rejected :
          /\ InvokedOf(id) = {1, 2, 3}
          /\ ReturnedOf(id) = {Error("filesize greater than maximum")}

\* C22: FileValidator.validate makes its checks in the order: exists, is a
\* regular file, name pattern, creation time >= min, creation time <= max,
\* modified time >= min, modified time <= max, size >= min, size <= max.  It
\* reports the reason of the first check that fails and evaluates no check
\* after it, and a rejected result holds the reason and no attribute.  A
\* path that has left the disk fails the first or the second check.
CheckOrder ==
    <<"does not exist", "is not a file", "does not match pattern",
      "creation time before minimum", "creation time after maximum",
      "modified time before minimum", "modified time after maximum",
      "filesize less than minimum", "filesize greater than maximum">>

\* The k-th check of the order fails for path p, as p is on disk.
Fails(k, p) ==
    CASE k = 1 -> FALSE
      [] k = 2 -> Stat(p).is_dir
      [] k = 3 -> /\ validator.name_pattern # None
                  /\ ~Search(validator.name_pattern, Basename(p))
      [] k = 4 -> \E m \in validator.creation_date_min : Stat(p).st_ctime < m
      [] k = 5 -> \E m \in validator.creation_date_max : Stat(p).st_ctime > m
      [] k = 6 -> \E m \in validator.modified_date_min : Stat(p).st_mtime < m
      [] k = 7 -> \E m \in validator.modified_date_max : Stat(p).st_mtime > m
      [] k = 8 -> \E m \in validator.filesize_min : Stat(p).st_size < m
      [] OTHER -> \E m \in validator.filesize_max : Stat(p).st_size > m

Failing(p) == {k \in 1..Len(CheckOrder) : Fails(k, p)}
FirstFailing(p) == CHOOSE k \in Failing(p) : \A m \in Failing(p) : k <= m

\* The checks made before the stat call at which validate() is.
ChecksBefore(step) ==
    CASE step = "exists"        -> {}
      [] step = "is_type"       -> {1}
      [] step = "creation_time" -> 1..3
      [] step = "modified_time" -> 1..5
      [] OTHER                  -> 1..7

C22_FirstFailingCheckReported ==
    validator.kind = "FileValidator" =>
        /\ \A id \in hist.accepted : Failing(EventOf(id).src_path) = {}
        /\ \A id \in hist.rejected :
              LET p == EventOf(id).src_path
              IN \/ /\ fs[p] = "removed"
                    /\ \E k \in 1..2 : ReturnedOf(id) = {Error(CheckOrder[k])}
                 \/ /\ Failing(p) # {}
                    /\ ReturnedOf(id) = {Error(CheckOrder[FirstFailing(p)])}
        /\ proc_pc \in StatSteps =>
              Failing(event.src_path) \cap ChecksBefore(proc_pc) = {}

\* A FileValidator whose name pattern and six bounds are all supplied has
\* rejected for its name a file that fails four later checks too, and for its
\* creation time being before the minimum a file that fails five checks.
C22_Witness ==
    /\ validator.kind = "FileValidator"
    /\ \E id \in hist.rejected :
          /\ fs[EventOf(id).src_path] = "present"
          /\ Failing(EventOf(id).src_path) = {3, 4, 5, 6, 8}
          /\ ReturnedOf(id) = {Error("does not match pattern")}
    /\ \E id \in hist.rejected :
          /\ fs[EventOf(id).src_path] = "present"
          /\ Failing(EventOf(id).src_path) = {4, 5, 7, 8, 9}
          /\ ReturnedOf(id) = {Error("creation time before minimum")}

\* C23: a pattern or bound that is not supplied constrains nothing.  A
\* FileValidator without pattern and bounds accepts every regular file on
\* disk, a FolderValidator without them every directory on disk, and no
\* validator rejects a path for a check whose pattern or bound is missing.
\* Stated for paths that stay on disk.
Unconstrained(v) ==
    /\ v.name_pattern = None
    /\ v.creation_date_min = {} /\ v.creation_date_max = {}
    /\ v.modified_date_min = {} /\ v.modified_date_max = {}
    /\ v.kind = "FileValidator" => v.filesize_min = {} /\ v.filesize_max = {}

RightType(p) == (validator.kind = "FolderValidator") <=> Stat(p).is_dir

\* What a check needs to have been supplied with to report `reason`.
Supplied(reason) ==
    CASE reason = "does not match pattern" -> validator.name_pattern # None
      [] reason = "creation time before minimum" ->
             validator.creation_date_min # {}
      [] reason = "creation time after maximum" ->
             validator.creation_date_max # {}
      [] reason = "modified time before minimum" ->
             validator.modified_date_min # {}
      [] reason = "modified time after maximum" ->
             validator.modified_date_max # {}
      [] reason = "filesize less than minimum" -> validator.filesize_min # {}
      [] reason = "filesize greater than maximum" ->
             validator.filesize_max # {}
      [] OTHER -> TRUE

C23_MissingBoundIsNoConstraint ==
    validator.kind \in {"FileValidator", "FolderValidator"} =>
        \A id \in Validated :
            LET p == EventOf(id).src_path
            IN /\ \A reason \in ErrorsOf(id) : Supplied(reason)
               /\ (Unconstrained(validator) /\ RightType(p)
                     /\ fs[p] = "present") => id \in hist.accepted

\* A FileValidator without pattern and bounds has accepted both files, of
\* different sizes and modified times.
C23_Witness ==
    /\ validator.kind = "FileValidator"
    /\ Unconstrained(validator)
    /\ \A p \in Paths : \E id \in hist.accepted : EventOf(id).src_path = p

\* C24: validation is idempotent and stateless.  Two calls of validate() for
\* the same path, the path being on disk unchanged at both or being gone
\* before the first, end alike: both accept or both reject, with the same
\* reason and the same map; and no step changes the validator.
SamePath(a, b) == EventOf(a).src_path = EventOf(b).src_path

Unchanged(a, b) ==
    \/ fs[EventOf(a).src_path] = "present"
    \/ ErrorsOf(a) = {"does not exist"}

SameResultTwice ==
    \A a, b \in Validated :
        (a < b /\ SamePath(a, b) /\ Unchanged(a, b)) =>
            /\ a \in hist.accepted <=> b \in hist.accepted
            /\ a \in hist.rejected <=> b \in hist.rejected
            /\ ErrorsOf(a) = ErrorsOf(b)
            /\ ReturnedOf(a) = ReturnedOf(b)

StringForm(x) ==
    CASE x.type = "str"  -> x.value
      [] x.type = "Path" -> x.value
      [] OTHER           -> "None"

ExpectedPut(id) ==
    IF validator.kind = None THEN {EventOf(id).src_path}
    ELSE {IF "new_folder" \in DOMAIN i THEN StringForm(i["new_folder"])
          ELSE EventOf(id).src_path : i \in ReturnedOf(id)}

PutIds == {hist.puts[k].id : k \in 1..Len(hist.puts)}

C25_PutsOverrideOrSrcPath ==
    /\ \A k \in 1..Len(hist.puts) :
          /\ validator.kind # None => hist.puts[k].id \in hist.accepted
          /\ ExpectedPut(hist.puts[k].id) = {hist.puts[k].value}
    /\ \A id \in hist.accepted : id # event.id => id \in PutIds

\* A chain whose second validator returns a pathlib.Path under new_folder has
\* accepted a file after the delay, and the path that was put is the one the
\* Path holds and not the path of the event.
C25_Witness ==
    /\ validator.kind = "CompositeValidator"
    /\ process_delay # 0
    /\ Len(hist.puts) = 1
    /\ hist.puts[1].value = "/out/b"
    /\ EventOf(hist.puts[1].id).src_path = "/in/LastShot.txt"

\* C26: a TestDataEventHandler with an allow-list, ignore_directories set and
\* validation disabled puts the path into its buffer once for a Created
\* notification of a file that matches the allow-list, and puts nothing for
\* a Modified notification of that file or for any notification of a file
\* that does not match.
TestDataAsTested ==
    /\ handler = TestDataEventHandler
    /\ regexes # {}
    /\ ignore_regexes = {}
    /\ ignore_directories
    /\ ~validation_enabled

C26_OnePutPerMatchingCreated ==
    [][\A path \in Paths, t \in EventTypes, inc \in CounterOutcomes :
         (TestDataAsTested /\ SyncDispatch(path, t, inc)) =>
            IF t = "created" /\ MatchesAny(regexes, path)
              THEN /\ task_queue' = Append(task_queue, path)
                   /\ Len(hist'.puts) = Len(hist.puts) + 1
                   /\ hist'.puts[Len(hist'.puts)].value = path
              ELSE /\ task_queue' = task_queue
                   /\ hist'.puts = hist.puts]_vars

\* The handler of the test was notified that a matching file was created and
\* that it was modified: the buffer holds its path once.
C26_Witness ==
    /\ TestDataAsTested
    /\ emitted = 2
    /\ task_queue = <<"/in/LastShot.txt">>
    /\ Len(hist.puts) = 1
    /\ "ignored" \in hist.dropped

\* C27: validate() of the synchronous handlers always ends with True or
\* False: True only after it has read a ShotLog.json with content in the
\* directory of the event, False for what is no directory on disk or when the
\* timeout is over; it never raises and never ends without a value.
VerdictsOf(id) == {x[2] : x \in {y \in hist.verdicts : y[1] = id}}
RaisedIn(where) == {x[1] : x \in {y \in hist.handler_raised : y[2] = where}}

C27_ValidateAlwaysReturns ==
    /\ RaisedIn("listdir") = {}
    /\ \A e \in hist.validate_calls :
          /\ e # sync_event => VerdictsOf(e.id) # {}
          /\ "accept" \in VerdictsOf(e.id) =>
                shotlog = "nonempty" /\ e.is_directory
          /\ "timeout" \in VerdictsOf(e.id) => e.is_directory

\* C28: an OSError of open() or read() of ShotLog.json is logged and does not
\* end validate(): the polling goes on, and validate() ends with True after a
\* later read of content or with False when the timeout is over.
C28_ReadFailureIsRetried ==
    \A id \in hist.io_errors :
        \/ id = sync_event.id /\ sync_pc \in {"poll", "read"}
        \/ VerdictsOf(id) \in {{"accept"}, {"timeout"}}

\* C29: when the increment of folders_detected fails, the path has been put
\* into the buffer and on_created / on_modified returns all the same: the
\* failure does not reach the watcher thread.
C29_CounterFailureIsContained ==
    \A id \in hist.inc_failed :
        /\ id \in PutIds
        /\ id \notin RaisedIn("counter")

\* C30: a fault of the start of the watcher is caught and logged in the
\* starter thread, which ends; start_in_thread() and run() do not raise for
\* it, the processor and the consumer go on, and no notification arrives as
\* long as no watcher has been started: every observer.start() that did not
\* start the watcher is in the log as an error.
Started == IF observer \in {"started", "stopped"} THEN 1 ELSE 0

LoopsRunning ==
    /\ proc_pc \in {"get", "sleep"}
    /\ cons_pc \in {"get", "callback"}

C30_StartFaultIsContained ==
    /\ obs_log.start = obs_log.errors + Started
    /\ run_pc # "raised"
    /\ mgr = "running" => run_pc = "gather" /\ LoopsRunning
    /\ Started = 0 => emitted = 0 /\ hist.posted = <<>>

\* The first start of the watcher failed and was logged; the observer was
\* started again by a second starter thread, and an event that arrived then
\* went through the processor and the consumer.
C30_Witness ==
    /\ obs_log.errors = 1
    /\ obs_log.start_in_thread = 2
    /\ observer = "started"
    /\ thread = "finished"
    /\ run_pc = "gather"
    /\ hist.consumed # <<>>

\* ------------------------------------------------------------- C31
\* C31: stop() does not drain the queues.  A call of stop() leaves event_queue
\* and task_queue as they are, and once the manager is stopped and its tasks
\* are cancelled no item leaves either queue and no callback is invoked:
\* event_queue can only be extended (by callbacks the watcher handed to the
\* loop before it was joined), task_queue and the record of callback
\* invocations stay as they are.
C31_StopDoesNotDrain ==
    [][/\ Stop => /\ event_queue' = event_queue
                  /\ task_queue' = task_queue
       /\ mgr = "stopped" => /\ IsPrefix(event_queue, event_queue')
                             /\ task_queue' = task_queue
                             /\ hist'.consumed = hist.consumed
                             /\ hist'.dequeued = hist.dequeued]_vars

\* stop() has cancelled both tasks with an event and a path still queued and
\* a callback configured.
C31_Witness ==
    /\ mgr = "stopped"
    /\ proc_pc = "cancelled"
    /\ cons_pc = "cancelled"
    /\ consume_callback # None
    /\ event_queue # <<>>
    /\ task_queue # <<>>
    /\ hist.stop_raised = {}

\* ------------------------------------------------------------- C32
\* Paths taken from the buffer and paths still in it, against the paths it
\* held at the start and the paths the processor put, in the order of the puts.
BufferInOrder ==
    hist.consumed \o task_queue = hist.held \o Values(hist.puts)

\* The processor is suspended in buffer.put().
Waiting == proc_pc = "put"

\* C32: with a bounded buffer that is full the EventProcessor suspends in
\* buffer.put() until space is free.  The buffer never holds more than maxsize
\* paths; while the processor waits it keeps the event and its path, the
\* event is not marked done and no further event is dequeued, and it goes on
\* waiting as long as the buffer is full; the wait ends with the path of the
\* held event appended to the buffer and one task_done().  No accepted event
\* is marked done without its path having been put, and the buffer yields
\* the paths in the order of the events.
C32_BackpressureSuspendsProcessor ==
    /\ [](/\ Len(task_queue) <= maxsize
          /\ Waiting => /\ event # NoEvent
                         /\ event.id \notin PutIds
                         /\ InFlight = 1
          /\ hist.task_done = Len(hist.puts) + Cardinality(hist.rejected)
          /\ Increasing(Ids(hist.puts))
          /\ BufferInOrder)
    /\ [][/\ Waiting /\ Waiting' => /\ event' = event
                                     /\ info' = info
                                     /\ hist'.dequeued = hist.dequeued
                                     /\ hist'.task_done = hist.task_done
          /\ Waiting /\ Full(task_queue) => Waiting'
          /\ Waiting /\ ~Waiting' =>
                /\ task_queue' = Append(task_queue, event.src_path)
                /\ hist'.puts = Append(hist.puts, [id |-> event.id,
                                                   value |-> event.src_path])
                /\ hist'.task_done = hist.task_done + 1
                /\ hist'.dequeued = hist.dequeued]_vars

\* Two events waited for space in a buffer of one path, and both paths were
\* put after the consumer had taken what was in the way.
C32_Witness ==
    /\ maxsize = 1
    /\ Len(hist.puts) = 2
    /\ hist.suspended = {1, 2}
    /\ hist.consumed # <<>>
    /\ proc_pc = "get"

\* ------------------------------------------------------------- C33
\* C33: in _consume_task_queue every item taken from task_queue is followed
\* by exactly one task_done() and at most one callback invocation, whether
\* the callback returns, raises, is absent or the consumer is cancelled while
\* it awaits the callback.  The items taken exceed the task_done() calls by
\* one exactly while the consumer awaits the callback of the item it holds,
\* so that no second item is taken before the first is marked done; the
\* callback has been invoked once per item taken, or never without callback.
C33_OneTaskDonePerItem ==
    /\ hist.taken - hist.tq_task_done = IF cons_pc = "callback" THEN 1 ELSE 0
    /\ Len(hist.consumed) = IF consume_callback = None THEN 0 ELSE hist.taken
    /\ cons_pc = "callback" <=> cons_task # None /\ cons_pc # "cancelled"
    /\ hist.cb_raised \subseteq 1..hist.taken

\* An async callback raised for the first item and the consumer was cancelled
\* while it awaited the callback of the second: two items, two task_done().
C33_Witness ==
    /\ consume_callback = "async"
    /\ hist.cb_raised = {1}
    /\ cons_pc = "cancelled"
    /\ cons_task # None
    /\ hist.taken = 2
    /\ hist.tq_task_done = 2

\* ------------------------------------------------------------- C34
EnqueuedIds == {hist.enqueued[k].id : k \in 1..Len(hist.enqueued)}
\* Events for which the processor called event_queue.task_done().
DoneIds == {x[2] : x \in hist.log}

\* C34: under fair scheduling, without cancellation and with an unbounded task
\* queue, every event put into the event queue is eventually dequeued by the
\* processor and marked done, whatever happens to the events before it.
C34_EveryEventEventuallyDone ==
    \A i \in 1..MaxEvents : (i \in EnqueuedIds) ~> (i \in DoneIds)

\* ------------------------------------------------------------- C35
\* A task of _tasks is cancelled in this step.
Cancels ==
    \/ proc_pc' = "cancelled" /\ proc_pc # "cancelled"
    \/ cons_pc' = "cancelled" /\ cons_pc # "cancelled"

\* PathObserver.stop() raises to the caller of stop() in this step.
StopRaises == hist'.stop_raised # hist.stop_raised

\* C35: stop() cancels the tasks only after PathObserver.stop() has returned.
\* A step that cancels a task is one in which the observer was stopped and
\* joined without an error; a step in which stopping the observer raises
\* reports the error to the caller, cancels no task and leaves the manager
\* and its tasks as they were.
C35_CancelOnlyAfterObserverStopped ==
    [][/\ Cancels => /\ ~ObserverStopRaises
                     /\ observer' = "stopped"
                     /\ ~StopRaises
       /\ Stop /\ ObserverStopRaises => /\ mgr \in hist'.stop_raised
                                        /\ ~Cancels
                                        /\ proc_pc' = proc_pc
                                        /\ cons_pc' = cons_pc
                                        /\ UNCHANGED mgrVars]_vars

\* stop() raised on a running manager whose observer thread had not started
\* yet: both tasks exist and are still waiting for their queues.
C35_Witness ==
    /\ "running" \in hist.stop_raised
    /\ tasks = {"processor", "consumer"}
    /\ proc_pc = "get"
    /\ cons_pc = "get"
    /\ mgr = "running"

\* ------------------------------------------------------------- C36
\* C36: TestDataEventHandler and LastShotEventHandler with validation enabled
\* never put an event whose is_directory flag is false; with
\* ignore_directories set as well nothing at all reaches the buffer, whatever
\* the allow-list and the deny-list are.
C36_ValidationPutsDirectoriesOnly ==
    handler # AsyncEventHandler /\ validation_enabled =>
        /\ \A k \in 1..Len(hist.puts) : EventOf(hist.puts[k].id).is_directory
        /\ ignore_directories => hist.puts = <<>> /\ task_queue = <<>>

\* With validation and ignore_directories: an event for a regular file went
\* through the filters and was rejected by validate(), an event for the
\* directory was filtered by dispatch, and the buffer is empty.
C36_Witness ==
    /\ handler # AsyncEventHandler
    /\ validation_enabled
    /\ ignore_directories
    /\ emitted = 2
    /\ \E e \in hist.validate_calls :
          ~e.is_directory /\ <<e.id, "not a directory">> \in hist.verdicts
    /\ "filtered" \in hist.dropped
    /\ task_queue = <<>>

\* ------------------------------------------------------------- C37
\* The deny-list or the directory flag excludes the path.
Excluded(path) ==
    \/ MatchesAny(ignore_regexes, path)
    \/ ignore_directories /\ Stat(path).is_dir

\* C37: an AsyncEventHandler constructed with regexes=[] behaves as one
\* constructed with regexes=None.  With either, a Created or Modified
\* notification that neither the deny-list nor the directory flag excludes is
\* posted, once, and no other notification is: what becomes of a notification
\* does not depend on which of the two the allow-list is.
C37_EmptyAllowListIsNoAllowList ==
    [][\A path \in AllPaths, t \in EventTypes :
         WatcherEmit(path, t) /\ regexes \in {{}, {<<>>}} =>
           IF t \in {"created", "modified"} /\ ~Excluded(path)
             THEN /\ ready' = Append(ready, NewEvent(path, t))
                  /\ hist'.posted = Append(hist.posted, NewEvent(path, t))
             ELSE /\ ready' = ready
                  /\ hist'.posted = hist.posted]_vars

\* With regexes=[] and a deny-list, one notification was posted and reached
\* the event queue and another one was filtered.
C37_Witness ==
    /\ handler = AsyncEventHandler
    /\ regexes = {<<>>}
    /\ ignore_regexes # {}
    /\ Len(hist.posted) = 1
    /\ Len(event_queue) = 1
    /\ "filtered" \in hist.dropped

=============================================================================
